---- MODULE Spec2Model ----
(***************************************************************************)
(* Bot process lifecycle manager of tgbotsaas: BotProcessManager           *)
(* (src/bot_manager/process_manager.py) over the status table user_bots of *)
(* MasterDatabase (src/master_bot/database.py).                            *)
(*                                                                         *)
(* The manager's coroutines run on one asyncio event loop, so the code     *)
(* between two awaits that really suspend (asyncio.sleep) is one atomic    *)
(* step.  subprocess.run, Popen.wait and the sqlite calls block the loop   *)
(* and are therefore inside a step.  OS processes live and die on their    *)
(* own (ProcExit).                                                         *)
(***************************************************************************)
EXTENDS Integers, FiniteSets, Sequences, TLC

\* ------------------------------------------------------------------ bounds
NumBots == 1                 \* bot ids 1..NumBots
MaxPid  == 2                 \* OS process ids 1..MaxPid: caps the launches
MaxClock == 2                \* the database's clock runs over 0..MaxClock

\* ------------------------------------------------------- program constants
ConfirmPolls == 15           \* for i in range(15): sleep(2); poll()
MaxRetries   == 5            \* get_connection: max_retries = 5

Bots  == 1..NumBots
Pids  == 1..MaxPid
Tasks == {"t1", "t2"}        \* coroutines of the event loop calling the manager

Null    == "NULL"            \* Python None / SQL NULL
Pending == "PENDING"         \* _start_bot_process suspended in its window
True    == "True"
False   == "False"

NoHandle     == [pid |-> 0, kind |-> "none"]
Handle(p, k) == [pid |-> p, kind |-> k]    \* kind: "owned" (Popen) | "discovered" (MockProcess)

VARIABLES
    osProc,      \* host process table: pid -> [bot, alive, owned]; bot = 0: pid
                 \* unused; owned: launched by this manager
    nextPid,     \* next pid the host hands out
    running,     \* BotProcessManager.running_processes: bot -> handle
    registry,    \* user_bots rows: bot -> [status, process_id, error_message]
    configFile,  \* bot -> does bot_<id>_config.json exist
    dbFaulty,    \* do MasterDatabase calls fail (database out of reach)
    coroutines,  \* the coroutines that call the manager in this run
    task,        \* per coroutine: position and locals of the call in progress
    monitor,     \* HealthMonitor: its flag and the position of its loop
    restore,     \* restore_user_bots: its position, counters and what it did
    clock,       \* the database's CURRENT_TIMESTAMP
    written,     \* bot -> the last update_bot_status that reached its record
    dbconn,      \* one use of MasterDatabase.get_connection: its retry loop
    child,       \* pid -> the user bot running in that process (UserBot.start_bot)
    returned     \* the call that returned in the step leading here (NoCall otherwise)

vars == <<osProc, nextPid, running, registry, configFile, dbFaulty, coroutines, task,
          monitor, restore, clock, written, dbconn, child, returned>>

\* Instrumentation of one call: what it did (reset when the call starts).
NoIns == [spawns |-> 0, smoke |-> 0, launches |-> 0, polls |-> 0,
          signals |-> {}, writes |-> {}, path |-> "none",
          callPre |-> "none", stopPath |-> "none", stopRet |-> Null,
          cfgSeen |-> "unchecked", handleSeen |-> "unchecked",
          smokeResult |-> "none", spawnRet |-> Null, tracked |-> {},
          lost |-> FALSE, callPid |-> 0, oldAtSmoke |-> "none",
          memWarned |-> FALSE, logOpened |-> "none"]

Idle == [pc |-> "idle", op |-> "none", bot |-> 0, proc |-> 0, i |-> 0, ins |-> NoIns]

NoPing == -1                 \* last_ping IS NULL: the record was never written

NoPath == <<>>               \* config_path, database_path IS NULL

NoRecord == [status |-> "absent", process_id |-> Null, error_message |-> Null,
             last_ping |-> NoPing, config_path |-> NoPath, database_path |-> NoPath]

\* No update_bot_status has reached the record.
NotWritten == [status |-> "none", error_message |-> Null, at |-> NoPing]

NoCall == [op |-> "none", bot |-> 0, ret |-> Null, list |-> {},
           proc |-> 0, atCall |-> FALSE, pre |-> NoHandle, preAlive |-> FALSE,
           recBefore |-> NoRecord, runSame |-> TRUE, regSame |-> TRUE,
           ins |-> NoIns]

\* The manager's world as a value, so that a handler is a function of it.
World(ins) == [os |-> osProc, np |-> nextPid, run |-> running, reg |-> registry,
               cfg |-> configFile, ins |-> ins, ret |-> Null, proc |-> 0,
               list |-> {}, now |-> clock, written |-> written]

\* Outcome of one MasterDatabase call: it succeeds, or (dbFaulty: the database
\* file cannot be written during this run) it fails.
DbOutcomes == IF dbFaulty THEN {FALSE} ELSE {TRUE}

\* ------------------------------------------------------------ StatusRegistry
\* str(process.pid): the process id is stored as text.
PidStr(p) == ToString(p)

RecordExists(reg, b) == reg[b].status # "absent"

\* MasterDatabase.update_bot_status: UPDATE ... WHERE id = ?; an error is
\* logged and swallowed (ok = FALSE: the write is lost).
\* (mutant) a record in status error is not put back to active
update_bot_status_guarded(w, b, status, msg, ok) ==
    LET w1 == [w EXCEPT !.ins.writes = @ \cup {<<b, status, msg>>},
                        !.ins.lost = @ \/ ~ok]
    IN  IF ok /\ RecordExists(w.reg, b)
        THEN IF w.reg[b].status = "error" /\ status = "active"
             THEN [w1 EXCEPT !.written[b] = [status |-> status, error_message |-> msg,
                                             at |-> w.now]]
             ELSE [w1 EXCEPT !.reg[b].status = status, !.reg[b].error_message = msg,
                             !.reg[b].last_ping = w.now,
                             !.written[b] = [status |-> status, error_message |-> msg,
                                             at |-> w.now]]
        ELSE w1

\* (mutant) a missing record is created (INSERT OR REPLACE)
update_bot_status_upsert(w, b, status, msg, ok) ==
    LET w1 == [w EXCEPT !.ins.writes = @ \cup {<<b, status, msg>>},
                        !.ins.lost = @ \/ ~ok]
    IN  IF ok
        THEN [w1 EXCEPT !.reg[b].status = status, !.reg[b].error_message = msg,
                        !.reg[b].last_ping = w.now,
                        !.written[b] = [status |-> status, error_message |-> msg,
                                        at |-> w.now]]
        ELSE w1

\* (mutant) a write without a message keeps the message the record has
\* (error_message = COALESCE(?, error_message))
update_bot_status_keeps_message(w, b, status, msg, ok) ==
    LET w1 == [w EXCEPT !.ins.writes = @ \cup {<<b, status, msg>>},
                        !.ins.lost = @ \/ ~ok]
    IN  IF ok /\ RecordExists(w.reg, b)
        THEN [w1 EXCEPT !.reg[b].status = status,
                        !.reg[b].error_message = IF msg = Null THEN @ ELSE msg,
                        !.reg[b].last_ping = w.now,
                        !.written[b] = [status |-> status, error_message |-> msg,
                                        at |-> w.now]]
        ELSE w1

\* ins.lost: a write of the call failed.  written: the call as the database
\* received it.
update_bot_status(w, b, status, msg, ok) ==
    LET w1 == [w EXCEPT !.ins.writes = @ \cup {<<b, status, msg>>},
                        !.ins.lost = @ \/ ~ok]
    IN  IF ok /\ RecordExists(w.reg, b)
        THEN [w1 EXCEPT !.reg[b].status = status, !.reg[b].error_message = msg,
                        !.reg[b].last_ping = w.now,
                        !.written[b] = [status |-> status, error_message |-> msg,
                                        at |-> w.now]]
        ELSE w1

\* str(config_path), str(database_path) of deploy_user_bot: the directory and
\* the bot id the file name is made of.
ConfigPath(b)   == <<"bot_configs", b>>
DatabasePath(b) == <<"user_databases", b>>

\* MasterDatabase.update_bot_config_path
update_bot_config_path(w, b, cpath, dpath, ok) ==
    LET w1 == [w EXCEPT !.ins.lost = @ \/ ~ok]
    IN  IF ok /\ RecordExists(w.reg, b)
        THEN [w1 EXCEPT !.reg[b].config_path = cpath, !.reg[b].database_path = dpath]
        ELSE w1

\* MasterDatabase.update_bot_process_id
update_bot_process_id(w, b, pidstr, ok) ==
    LET w1 == [w EXCEPT !.ins.lost = @ \/ ~ok]
    IN  IF ok /\ RecordExists(w.reg, b)
        THEN [w1 EXCEPT !.reg[b].process_id = pidstr, !.reg[b].last_ping = w.now]
        ELSE w1

\* ------------------------------------------------------------ process handles
\* handle.poll().  A Popen handle reports its child's state.  The MockProcess
\* built by discovery stores 'poll': lambda: None in the class dict, so
\* calling it on the instance passes self to a lambda of no parameters and
\* raises TypeError.
poll(os, h) ==
    IF h.kind = "discovered" THEN "TypeError"
    ELSE IF os[h.pid].alive THEN "running" ELSE "exited"

\* ------------------------------------------------------------------ stop_bot
\* (mutant) the status is written although nothing was stopped
stop_not_running_writes(w, b) ==
    [update_bot_status(w, b, "stopped", Null, TRUE)
       EXCEPT !.ret = True, !.ins.stopPath = "noop"]

\* Lines 441-443: nothing is tracked for the bot.
stop_not_running(w, b) == [w EXCEPT !.ret = True, !.ins.stopPath = "noop"]

\* (mutant) the handle is dropped and the status written, but the process is
\* neither signalled nor waited for
stop_bot_forgets(w, b, graceful, ok) ==
    IF w.run[b] = NoHandle
    THEN stop_not_running(w, b)
    ELSE [update_bot_status([w EXCEPT !.run[b] = NoHandle, !.ins.stopPath = "graceful"],
                            b, "stopped", Null, ok)
            EXCEPT !.ret = True]

\* graceful: does the process exit within the 10 s wait after SIGTERM.
stop_bot(w, b, graceful, ok) ==
    LET h == w.run[b]
    IN  IF h = NoHandle
        THEN stop_not_running(w, b)
        ELSE
          LET alive == w.os[h.pid].alive
          IN  IF h.kind = "discovered"
              THEN IF ~alive
                   THEN \* 403 os.getpgid raises, 410 MockProcess.terminate()
                        \* raises TypeError -> 445-447
                        [w EXCEPT !.ret = False, !.ins.stopPath = "raised"]
                   ELSE \* 403 SIGTERM sent; 415 MockProcess.wait(timeout=10)
                        \* raises TypeError -> 445-447
                        [w EXCEPT !.os[h.pid].alive = ~graceful,
                                  !.ins.signals = @ \cup {"SIGTERM"},
                                  !.ret = False, !.ins.stopPath = "raised"]
              ELSE
                LET forced == alive /\ ~graceful                   \* 417-427
                    w1 == [w EXCEPT
                             !.ins.signals = @ \cup (IF forced THEN {"SIGTERM", "SIGKILL"}
                                                     ELSE {"SIGTERM"}),
                             !.ins.stopPath = IF forced THEN "forced" ELSE "graceful",
                             !.os[h.pid].alive = FALSE,
                             !.run[b] = NoHandle]                  \* 429
                IN  [update_bot_status(w1, b, "stopped", Null, ok)  \* 431-438
                       EXCEPT !.ret = True]

\* ------------------------------------------------------- _start_bot_process
\* What the environment does to one spawn attempt: the first thing that goes
\* wrong, if any.
SmokeFailures == {"smoke_nonzero", "smoke_timeout", "smoke_error"}
SpawnFaults == {"ok", "config_unreadable", "log_error", "popen_notfound",
                "popen_error", "doa"} \cup SmokeFailures

\* (mutant) the tracked handle is not consulted
already_running_never(w, b) == FALSE

\* Lines 184-188: a handle is tracked for the bot and polls alive.
already_running(w, b) == w.run[b] # NoHandle /\ poll(w.os, w.run[b]) = "running"

\* (mutant) the result of the --help-test run is ignored
smoke_ignored(f) == TRUE

\* Lines 255-282: the --help-test run exited zero within its 30 s.
smoke_passed(f) == f \notin SmokeFailures

\* The host's process table after it started process p for bot b.
Started(os, p, b, alive) ==
    IF p \in DOMAIN os
    THEN [os EXCEPT ![p] = [bot |-> b, alive |-> alive, owned |-> TRUE]]
    ELSE os

\* (mutant) the handle is registered right after Popen, before any poll
launch_registers(w, b, doa) ==
    LET p  == w.np
        w1 == [w EXCEPT !.os = Started(@, p, b, ~doa),
                        !.np = @ + 1,
                        !.ins.launches = @ + 1,
                        !.proc = p,
                        !.run[b] = Handle(p, "owned")]
    IN  IF doa
        THEN [w1 EXCEPT !.ret = Null, !.ins.path = "doa"]
        ELSE [w1 EXCEPT !.ret = Pending]

\* (mutant) a process that is dead on arrival is launched a second time
launch_retries(w, b, doa) ==
    LET p  == w.np
        w1 == [w EXCEPT !.os = Started(@, p, b, ~doa),
                        !.np = @ + 1,
                        !.ins.launches = @ + 1,
                        !.proc = p]
    IN  IF doa
        THEN [w1 EXCEPT !.os = Started(@, p + 1, b, TRUE),
                        !.np = @ + 1,
                        !.ins.launches = @ + 1,
                        !.proc = p + 1,
                        !.ret = Pending]
        ELSE [w1 EXCEPT !.ret = Pending]

\* Lines 306-322: Popen, then the immediate poll.  doa: the process has
\* already exited at that poll.
launch(w, b, doa) ==
    LET p  == w.np
        w1 == [w EXCEPT !.os = Started(@, p, b, ~doa),
                        !.np = @ + 1,
                        !.ins.launches = @ + 1,
                        !.proc = p]
    IN  IF doa
        THEN [w1 EXCEPT !.ret = Null, !.ins.path = "doa"]          \* 318-322
        ELSE [w1 EXCEPT !.ret = Pending]

\* bot_<id>_stdout.log and bot_<id>_stderr.log hold earlier content when a
\* process was launched for the bot before, by this manager or by the one
\* that left the process discovery found: each launch is preceded by the
\* header written at 291-294 and followed by the process's output.
LogHasContent(os, b) == \E q \in DOMAIN os : os[q].bot = b

\* Lines 289-295: open(stdout_log, 'w') and open(stderr_log, 'w'), then the
\* start header.  Mode 'w' creates the file, or empties the one that exists.
create_log_files(w, b) ==
    [w EXCEPT !.ins.logOpened = IF LogHasContent(w.os, b) THEN "truncated"
                                ELSE "created"]

\* Lines 180-324: from the call to the first await of the confirmation window.
\* ret = Pending: the process is launched and the window begins.
start_bot_process(w, b, f) ==
    LET h  == w.run[b]
        w0 == [w EXCEPT !.ins.spawns = @ + 1,
                        !.ins.handleSeen = IF h = NoHandle THEN "none"
                                           ELSE poll(w.os, h)]    \* 184-185
    IN  IF already_running(w, b)
        THEN [w0 EXCEPT !.ret = PidStr(h.pid), !.ins.path = "already_running"]  \* 186-188
        ELSE IF h # NoHandle /\ poll(w.os, h) = "TypeError"
        THEN [w0 EXCEPT !.ret = Null, !.ins.path = "poll_raised"]  \* 351-354
        ELSE
          LET w1 == [w0 EXCEPT !.run[b] = NoHandle]                \* 189-191
          IN  IF ~w1.cfg[b]
              THEN [w1 EXCEPT !.ret = Null, !.ins.path = "no_config"]       \* 210-212
              ELSE IF f = "config_unreadable"
              THEN [w1 EXCEPT !.ret = Null, !.ins.path = f]        \* 218-220
              ELSE
                \* ins.oldAtSmoke: the process tracked when restart_bot was
                \* called, as it is when the smoke test runs
                LET w2 == [w1 EXCEPT !.ins.smoke = @ + 1,          \* 255-263
                                     !.ins.smokeResult = IF f \in SmokeFailures
                                                         THEN f ELSE "zero",
                                     !.ins.oldAtSmoke =
                                        IF w.ins.callPid = 0 THEN "none"
                                        ELSE IF w.os[w.ins.callPid].alive THEN "alive"
                                        ELSE "gone"]
                IN  IF ~smoke_passed(f)
                    THEN [w2 EXCEPT !.ret = Null, !.ins.path = f]  \* 271-282
                    ELSE IF f = "log_error"
                    THEN [w2 EXCEPT !.ret = Null, !.ins.path = f]  \* 296-298
                    ELSE
                      LET w3 == create_log_files(w2, b)
                      IN  IF f \in {"popen_notfound", "popen_error"}
                          THEN [w3 EXCEPT !.ret = Null, !.ins.path = f]  \* 344-354
                          ELSE launch(w3, b, f = "doa")

\* (mutant) success is declared at the first poll that finds the process alive
confirm_poll_early(w, b, p, i) ==
    IF ~w.os[p].alive
    THEN [w EXCEPT !.ret = Null, !.ins.path = "died_in_window"]
    ELSE [w EXCEPT !.ins.polls = @ + 1, !.run[b] = Handle(p, "owned"),
                   !.ret = PidStr(p), !.ins.path = "confirmed"]

\* (mutant) the pid is returned at the end of the window without the handle
\* being put into running_processes
confirm_poll_unregistered(w, b, p, i) ==
    IF ~w.os[p].alive
    THEN [w EXCEPT !.ret = Null, !.ins.path = "died_in_window"]
    ELSE
      LET w1 == [w EXCEPT !.ins.polls = @ + 1]
      IN  IF i + 1 = ConfirmPolls
          THEN [w1 EXCEPT !.ret = PidStr(p), !.ins.path = "confirmed"]
          ELSE [w1 EXCEPT !.ret = Pending]

\* (mutant) the spawn gives up at the last poll although the process is alive
confirm_poll_gives_up(w, b, p, i) ==
    IF ~w.os[p].alive
    THEN [w EXCEPT !.ret = Null, !.ins.path = "died_in_window"]
    ELSE
      LET w1 == [w EXCEPT !.ins.polls = @ + 1]
      IN  IF i + 1 = ConfirmPolls
          THEN [w1 EXCEPT !.ret = Null, !.ins.path = "gave_up"]
          ELSE [w1 EXCEPT !.ret = Pending]

\* Lines 327-342: one iteration of the window after its sleep, i polls done.
confirm_poll(w, b, p, i) ==
    IF ~w.os[p].alive
    THEN [w EXCEPT !.ret = Null, !.ins.path = "died_in_window"]    \* 331-335
    ELSE
      LET w1 == [w EXCEPT !.ins.polls = @ + 1]
      IN  IF i + 1 = ConfirmPolls
          THEN [w1 EXCEPT !.run[b] = Handle(p, "owned"),           \* 340-342
                          !.ret = PidStr(p), !.ins.path = "confirmed"]
          ELSE [w1 EXCEPT !.ret = Pending]

\* --------------------------------------------------------------- restart_bot
\* (mutant) success is reported whatever _start_bot_process returned
restart_finish_true(w, b, sret, okPid, okStatus) ==
    LET w0 == [w EXCEPT !.ins.spawnRet = sret]
    IN  [update_bot_status(update_bot_process_id(w0, b, sret, okPid),
                           b, "active", Null, okStatus)
           EXCEPT !.ret = True]

\* (mutant) the new process id is not persisted
restart_finish_no_pid(w, b, sret, okPid, okStatus) ==
    LET w0 == [w EXCEPT !.ins.spawnRet = sret]
    IN  IF sret # Null
        THEN [update_bot_status(w0, b, "active", Null, okStatus) EXCEPT !.ret = True]
        ELSE [update_bot_status(w0, b, "error", "Failed to restart process", okStatus)
                EXCEPT !.ret = False]

\* Lines 476-494: after _start_bot_process returned sret.
restart_finish(w, b, sret, okPid, okStatus) ==
    LET w0 == [w EXCEPT !.ins.spawnRet = sret]
    IN  IF sret # Null
        THEN [update_bot_status(update_bot_process_id(w0, b, sret, okPid),
                                b, "active", Null, okStatus)
                EXCEPT !.ret = True]
        ELSE [update_bot_status(w0, b, "error", "Failed to restart process", okStatus)
                EXCEPT !.ret = False]

\* (mutant) the failure is returned without persisting it
restart_no_config_silent(w, b, ok) ==
    [w EXCEPT !.ret = False, !.ins.path = "restart_no_config"]

\* Lines 460-471: the config file is missing after the settle delay.
restart_no_config(w, b, ok) ==
    [update_bot_status(w, b, "error", "Config file not found", ok)
       EXCEPT !.ret = False, !.ins.path = "restart_no_config"]

\* ------------------------------------------------------------ deploy_user_bot
\* What the environment does to the steps before the spawn: generate_config
\* returns None (the config cannot be written, the record cannot be read), or
\* _initialize_bot_database raises.
DeployFaults == {"ok", "config_failed", "db_init_failed"}

\* str(e) of the exception _initialize_bot_database raised
InitDbError == "Database init error"

\* Lines 117-139: up to the call of _start_bot_process.  ret = Pending: the
\* config file is written, the bot's database exists and the spawn follows.
deploy_prepare(w, b, d, ok) ==
    IF d = "config_failed" \/ ~RecordExists(w.reg, b)
    THEN [w EXCEPT !.ret = False, !.ins.path = "deploy_no_config"]    \* 119-122
    ELSE
      LET w1 == [w EXCEPT !.cfg[b] = TRUE]                            \* generate_config
      IN  IF d = "db_init_failed"
          THEN [update_bot_status(w1, b, "error", InitDbError, ok)    \* 166-178
                  EXCEPT !.ret = False, !.ins.path = "deploy_db_init"]
          ELSE [update_bot_config_path(w1, b, ConfigPath(b), DatabasePath(b), ok)
                  EXCEPT !.ret = Pending]                             \* 132-139

\* (mutant) a failed write raises into deploy_user_bot's handler
deploy_finish_write_raises(w, b, sret, okPid, okStatus) ==
    LET w0 == [w EXCEPT !.ins.spawnRet = sret]
    IN  IF sret # Null
        THEN [update_bot_status(update_bot_process_id(w0, b, sret, okPid),
                                b, "active", Null, okStatus)
                EXCEPT !.ret = IF okPid /\ okStatus THEN True ELSE False]
        ELSE [update_bot_status(w0, b, "error", "Failed to start process", okStatus)
                EXCEPT !.ret = False]

\* (mutant) success is reported whatever _start_bot_process returned
deploy_finish_true(w, b, sret, okPid, okStatus) ==
    LET w0 == [w EXCEPT !.ins.spawnRet = sret]
    IN  [update_bot_status(update_bot_process_id(w0, b, sret, okPid),
                           b, "active", Null, okStatus)
           EXCEPT !.ret = True]

\* Lines 145-164: after _start_bot_process returned sret.
deploy_finish(w, b, sret, okPid, okStatus) ==
    LET w0 == [w EXCEPT !.ins.spawnRet = sret]
    IN  IF sret # Null
        THEN [update_bot_status(update_bot_process_id(w0, b, sret, okPid),
                                b, "active", Null, okStatus)
                EXCEPT !.ret = True]
        ELSE [update_bot_status(w0, b, "error", "Failed to start process", okStatus)
                EXCEPT !.ret = False]

\* ---------------------------------------------------------- check_bot_health
\* race: what psutil sees right after poll() reported the process running:
\* the process with its resident memory below or above 200 MB, a zombie, or
\* nothing.
HealthRaces == {"ok", "high_memory", "zombie", "gone"}

\* (mutant) the exit is reported but neither cleaned up nor persisted
health_terminated_silent(w, b, ok) ==
    [w EXCEPT !.ret = False, !.ins.path = "terminated"]

\* (mutant) the error status is written without a message
health_terminated_no_message(w, b, ok) ==
    [update_bot_status([w EXCEPT !.run[b] = NoHandle], b, "error", Null, ok)
       EXCEPT !.ret = False, !.ins.path = "terminated"]

\* Lines 516-529: poll() reports the exit.
health_terminated(w, b, ok) ==
    [update_bot_status([w EXCEPT !.run[b] = NoHandle], b, "error",
                       "Process terminated unexpectedly", ok)
       EXCEPT !.ret = False, !.ins.path = "terminated"]

\* (mutant) the exception of the handle leaves check_bot_health
health_raised_propagates(w, b) ==
    [w EXCEPT !.ret = "TypeError", !.ins.path = "poll_raised"]

\* Lines 574-576: except Exception: log, return False.
health_raised(w, b) == [w EXCEPT !.ret = False, !.ins.path = "poll_raised"]

\* (mutant) a process above the memory threshold is killed and forgotten
memory_check_kills(w, b, race) ==
    IF race = "high_memory"
    THEN [w EXCEPT !.ins.memWarned = TRUE,
                   !.ins.signals = @ \cup {"SIGKILL"},
                   !.os[w.run[b].pid].alive = FALSE,
                   !.run[b] = NoHandle]
    ELSE w

\* Lines 541-545: memory_mb > 200 logs a warning ("Don't kill, just warn").
memory_check(w, b, race) ==
    IF race = "high_memory" THEN [w EXCEPT !.ins.memWarned = TRUE] ELSE w

check_bot_health(w, b, race, ok) ==
    LET h == w.run[b]
    IN  IF h = NoHandle
        THEN [w EXCEPT !.ret = False, !.ins.path = "not_tracked"]  \* 509-511
        ELSE IF poll(w.os, h) = "TypeError"
        THEN health_raised(w, b)                                   \* 516, 574-576
        ELSE IF poll(w.os, h) = "exited"
        THEN health_terminated(w, b, ok)                           \* 516-529
        ELSE IF race = "zombie"
        THEN [w EXCEPT !.os[h.pid].alive = FALSE,
                       !.ret = False, !.ins.path = "zombie"]       \* 537-539
        ELSE IF race = "gone"
        THEN [update_bot_status([w EXCEPT !.os[h.pid].alive = FALSE,
                                          !.run[b] = NoHandle],
                                b, "error", "Process no longer exists", ok)
                EXCEPT !.ret = False, !.ins.path = "gone"]         \* 560-572
        ELSE [update_bot_status(memory_check(w, b, race), b, "active", Null, ok)
                EXCEPT !.ret = True, !.ins.path = "healthy"]       \* 541-555

\* ---------------------------------------------------------- get_running_bots
\* A handle whose poll() reports an exit, or raises, is dropped and its record
\* marked error; the result is the list of the remaining keys.
\* (mutant) no handle is found dead
dead_bots_none(w) == {}

dead_bots(w) == {b \in Bots : w.run[b] # NoHandle /\ poll(w.os, w.run[b]) # "running"}

RECURSIVE mark_dead(_, _, _)
mark_dead(w, dead, okf) ==
    IF dead = {} THEN w
    ELSE LET b == CHOOSE x \in dead : \A y \in dead : x <= y
         IN  mark_dead(update_bot_status([w EXCEPT !.run[b] = NoHandle], b, "error",
                                         "Process died unexpectedly", okf[b]),
                       dead \ {b}, okf)

\* ins.tracked: the handles the call found, with their processes' state.
get_running_bots(w, okf) ==
    LET w0 == [w EXCEPT !.ins.tracked =
                          {<<b, w.run[b].kind, w.os[w.run[b].pid].alive>> :
                              b \in {x \in Bots : w.run[x] # NoHandle}}]
        w1 == mark_dead(w0, dead_bots(w0), okf)
    IN  [w1 EXCEPT !.list = {b \in Bots : w1.run[b] # NoHandle}]

\* --------------------------------------------------------- shutdown_all_bots
\* Lines 626-627: for bot_id in list(self.running_processes.keys()):
\* await self.stop_bot(bot_id); the value stop_bot returns is not looked at.
RECURSIVE stop_each(_, _, _, _)
stop_each(w, todo, gracefulf, okf) ==
    IF todo = {} THEN w
    ELSE LET b == CHOOSE x \in todo : \A y \in todo : x <= y
         IN  stop_each(stop_bot(w, b, gracefulf[b], okf[b]), todo \ {b}, gracefulf, okf)

\* ins.tracked: the handles found at the call, with their processes' state.
shutdown_all_bots(w, gracefulf, okf) ==
    LET keys == {b \in Bots : w.run[b] # NoHandle}
        w0   == [w EXCEPT !.ins.tracked =
                            {<<b, w.run[b].kind, w.os[w.run[b].pid].alive>> : b \in keys}]
    IN  [stop_each(w0, keys, gracefulf, okf) EXCEPT !.ret = Null]

\* ------------------------------------------------------------- HealthMonitor
MonitorOff == [pc |-> "off", monitoring |-> FALSE, task |-> "none",
               todo |-> {}, watched |-> {}, owed |-> {}]

\* (mutant) while True: the flag is not consulted
loop_test_always(m) == TRUE

\* start_monitoring, line 22: while self.monitoring
loop_test(m) == m.monitoring

\* (mutant) an exception raised in an iteration ends the loop
monitor_on_exception_exits(m) == [m EXCEPT !.pc = "ended"]

\* start_monitoring, lines 26-28: except Exception: log, then sleep(60).
monitor_on_exception(m) == [m EXCEPT !.pc = "backoff"]

\* --------------------------------------------------------- restore_user_bots
\* listed: the ids get_active_bots returned; statusRead: every record's status
\* when it was called.
RestoreOff == [pc |-> "off", todo |-> {}, restored_count |-> 0, failed_count |-> 0,
               events |-> 0, sawTracked |-> {}, sawNoConfig |-> {},
               called |-> {}, restored |-> {}, failed |-> {},
               listed |-> {}, statusRead |-> [b \in Bots |-> "absent"]]

\* (mutant) WHERE status = 'active'
get_active_bots_only_active(reg) == {b \in Bots : reg[b].status = "active"}

\* MasterDatabase.get_active_bots: WHERE status IN ('active', 'creating')
get_active_bots(reg) == {b \in Bots : reg[b].status \in {"active", "creating"}}

\* (mutant) the summary event is logged whatever the counts
restore_summary_always(r) == [r EXCEPT !.pc = "done", !.events = @ + 1]

\* app.py lines 216-223: the summary event, if anything was restored or failed.
restore_summary(r) ==
    [r EXCEPT !.pc = "done",
              !.events = IF r.restored_count > 0 \/ r.failed_count > 0
                         THEN @ + 1 ELSE @]

\* (mutant) the supervisor is never taken to report the bot
get_bot_process_info_none(run, b) == FALSE

\* get_bot_process_info(bot_id) is truthy: None only for an untracked bot,
\* a non-empty dict on every other path.
get_bot_process_info(run, b) == run[b] # NoHandle

\* (mutant) the missing config is neither persisted nor counted
restore_config_missing_silent(w, r, b, ok) == [w |-> w, r |-> r]

\* app.py lines 191-195: the config file of an untracked bot is missing.
restore_config_missing(w, r, b, ok) ==
    [w |-> update_bot_status(w, b, "error", "Config file missing", ok),
     r |-> [r EXCEPT !.failed_count = @ + 1, !.failed = @ \cup {b}]]

\* ------------------------------------------------------------ get_connection
\* One 'with self.get_connection() as conn:' of update_bot_status.  attempt:
\* the loop variable; slept: the delays slept so far, in units of retry_delay;
\* locked: the attempts that met 'database is locked'; bodyRuns: how often the
\* with-body (the statement) ran; thrown: the with-body raised into the
\* generator, which caught it and went on; result: how the with statement ended.
DbIdle == [pc |-> "idle", attempt |-> 0, slept |-> <<>>, locked |-> 0,
           bodyRuns |-> 0, thrown |-> FALSE, result |-> "none",
           stmt |-> [bot |-> 0, status |-> Null]]

\* retry_delay * (2 ** attempt), in units of retry_delay
RetryDelay(attempt) == 2 ^ attempt

\* Lines 104-110 and 115-121: 'database is locked' met at `attempt`: sleep and
\* continue if attempt < max_retries - 1, else raise.
on_locked(c) ==
    IF c.attempt < MaxRetries - 1
    THEN [c EXCEPT !.pc = "sleep", !.locked = @ + 1,
                   !.slept = Append(@, RetryDelay(c.attempt))]
    ELSE [c EXCEPT !.pc = "done", !.locked = @ + 1, !.result = "OperationalError"]

\* Lines 88-99: connect and PRAGMA.  Locked: the handler at 114-121.  Not
\* locked: the generator yields the connection; if that is its second yield,
\* after the with-body's exception was thrown into it, contextlib's __exit__
\* raises RuntimeError("generator didn't stop after throw()").
db_connect(c, isLocked) ==
    IF isLocked THEN on_locked(c)
    ELSE IF c.thrown THEN [c EXCEPT !.pc = "done", !.result = "RuntimeError"]
    ELSE [c EXCEPT !.pc = "body"]

\* Lines 99-110: the with-body ran its statement.  Not locked: commit, break.
\* Locked: the exception is thrown into the generator at the yield: rollback,
\* then as on_locked, inside the generator.
db_body(c, isLocked) ==
    LET c1 == [c EXCEPT !.bodyRuns = @ + 1]
    IN  IF isLocked
        THEN [on_locked(c1) EXCEPT !.thrown = TRUE]
        ELSE [c1 EXCEPT !.pc = "done", !.result = "ok"]

\* ------------------------------------------------------------------- UserBot
\* pc: where start_bot is; beats: the 'active' writes the bot has made.
NoChild      == [pc |-> "starting", beats |-> 0]
ChildPolling == [pc |-> "polling", beats |-> 1]

\* str(e) of the exception that ended start_bot
StartError == "Startup error"

\* What happens to start_bot: it reaches its idle wait, or raises before the
\* 'active' write of line 358 (building the application, the handlers), or
\* after it (initialize, start, start_polling).
ChildStarts == {"ok", "fails_early", "fails_late"}

\* start_bot, lines 342-398, for the bot of process p: _update_master_status
\* ('active') at 358; on an exception _update_master_status('error', str(e))
\* at 397 and raise, which ends the process (main, lines 552-556).
start_bot(w, p, b, how, ok1, ok2) ==
    LET w1 == IF how = "fails_early" THEN w
              ELSE update_bot_status(w, b, "active", Null, ok1)
    IN  IF how = "ok" THEN w1
        ELSE [update_bot_status(w1, b, "error", StartError, ok2)
                EXCEPT !.os[p].alive = FALSE]

\* =================================================================== actions
Commit(w) ==
    /\ osProc' = w.os
    /\ nextPid' = w.np
    /\ running' = w.run
    /\ registry' = w.reg
    /\ configFile' = w.cfg
    /\ written' = w.written
    /\ UNCHANGED <<dbFaulty, coroutines, clock, dbconn>>

\* A call starts: its locals.
Begin(opname, b) == [Idle EXCEPT !.op = opname, !.bot = b]

\* The call of t returns in this step.  atCall: it returns in the step that
\* called it.  pre, preAlive, recBefore: the handle tracked for the bot,
\* whether its process was alive, and the bot's record, when the step began.
\* runSame, regSame: the step left running_processes, user_bots as they were.
Return(t, tk, w) ==
    /\ task' = [task EXCEPT ![t] = Idle]
    /\ returned' = [op |-> tk.op, bot |-> tk.bot, ret |-> w.ret,
                    list |-> w.list,
                    proc |-> IF w.proc # 0 THEN w.proc ELSE tk.proc,
                    atCall |-> (tk.pc = "idle"),
                    recBefore |-> registry[tk.bot],
                    runSame |-> (w.run = running), regSame |-> (w.reg = registry),
                    pre |-> running[tk.bot],
                    preAlive |-> (running[tk.bot] # NoHandle
                                    /\ osProc[running[tk.bot].pid].alive),
                    ins |-> w.ins]

\* The call of t suspends at an await.
Suspend(t, tk) ==
    /\ task' = [task EXCEPT ![t] = tk]
    /\ returned' = NoCall

\* What follows _start_bot_process in its caller, once it returned sw.ret.
AfterSpawn(t, tk, sw, okPid, okStatus) ==
    IF sw.ret = Pending
    THEN /\ Commit(sw)
         /\ Suspend(t, [tk EXCEPT !.pc = "window", !.ins = sw.ins,
                                   !.proc = IF sw.proc # 0 THEN sw.proc ELSE @])
    ELSE LET fw == IF tk.op = "restart"
                   THEN restart_finish(sw, tk.bot, sw.ret, okPid, okStatus)
                   ELSE IF tk.op = "deploy"
                   THEN deploy_finish(sw, tk.bot, sw.ret, okPid, okStatus)
                   ELSE [sw EXCEPT !.ins.spawnRet = sw.ret]
         IN  Commit(fw) /\ Return(t, tk, fw)

\* The environment's choices a handler can observe in the current state (the
\* others would only repeat the same step).
TrackedAlive(b) == running[b] # NoHandle /\ osProc[running[b].pid].alive

\* _start_bot_process returns before it touches the environment when the bot
\* is tracked by a handle that polls alive or raises, or has no config file.
SpawnReachesEnv(b) ==
    configFile[b] /\ (running[b] = NoHandle
                        \/ (running[b].kind = "owned" /\ ~TrackedAlive(b)))

SpawnChoices(b) == IF SpawnReachesEnv(b) THEN SpawnFaults ELSE {"ok"}

\* The host had a pid left for the launch of the step (the model's cap on
\* launches): sw is the world after _start_bot_process ran.
LaunchAllowed(sw) == sw.np <= MaxPid + 1

\* stop_bot: the wait's outcome matters for a live process only.
StopChoices(b) == IF TrackedAlive(b) THEN BOOLEAN ELSE {TRUE}

\* check_bot_health: psutil is consulted for a live owned process only.
HealthChoices(b) ==
    IF TrackedAlive(b) /\ running[b].kind = "owned" THEN HealthRaces ELSE {"ok"}

\* _start_bot_process(bot_id, config_path) called on its own.
CallSpawn(t, b) ==
    /\ returned = NoCall
    /\ UNCHANGED <<monitor, restore, child>>
    /\ t \in coroutines
    /\ task[t].pc = "idle"
    /\ \E f \in SpawnChoices(b) :
          LET sw == start_bot_process(World(NoIns), b, f)
          IN  LaunchAllowed(sw) /\ AfterSpawn(t, Begin("spawn", b), sw, TRUE, TRUE)

\* deploy_user_bot(bot_id): the config file exists when the spawn is reached.
DeploySpawnChoices(b) ==
    IF running[b] = NoHandle \/ (running[b].kind = "owned" /\ ~TrackedAlive(b))
    THEN SpawnFaults ELSE {"ok"}

CallDeploy(t, b) ==
    /\ returned = NoCall
    /\ UNCHANGED <<monitor, restore, child>>
    /\ t \in coroutines
    /\ task[t].pc = "idle"
    /\ \E d \in DeployFaults, ok \in DbOutcomes :
          LET pw == deploy_prepare(World(NoIns), b, d, ok)
          IN  IF pw.ret = False
              THEN Commit(pw) /\ Return(t, Begin("deploy", b), pw)
              ELSE \E f \in DeploySpawnChoices(b), okPid \in DbOutcomes,
                      okStatus \in DbOutcomes :
                      LET sw == start_bot_process([pw EXCEPT !.ret = Null], b, f)
                      IN  LaunchAllowed(sw)
                          /\ AfterSpawn(t, Begin("deploy", b), sw, okPid, okStatus)

\* One poll of the confirmation window, after its 2 s sleep.
WindowPoll(t) ==
    /\ returned = NoCall
    /\ UNCHANGED <<monitor, restore, child>>
    /\ task[t].pc = "window"
    /\ \E okPid \in DbOutcomes, okStatus \in DbOutcomes :
          LET tk == task[t]
              sw == confirm_poll(World(tk.ins), tk.bot, tk.proc, tk.i)
          IN  AfterSpawn(t, [tk EXCEPT !.i = @ + 1], sw, okPid, okStatus)

\* stop_bot(bot_id): no await suspends it.
CallStop(t, b) ==
    /\ returned = NoCall
    /\ UNCHANGED <<monitor, restore, child>>
    /\ t \in coroutines
    /\ task[t].pc = "idle"
    /\ \E graceful \in StopChoices(b), ok \in DbOutcomes :
          LET w == stop_bot(World(NoIns), b, graceful, ok)
          IN  Commit(w) /\ Return(t, Begin("stop", b), w)

\* restart_bot(bot_id), lines 449-458: stop_bot, then the settle sleep.
CallRestart(t, b) ==
    /\ returned = NoCall
    /\ UNCHANGED <<monitor, restore, child>>
    /\ t \in coroutines
    /\ task[t].pc = "idle"
    /\ \E graceful \in StopChoices(b), ok \in DbOutcomes :
          LET w == stop_bot(World(NoIns), b, graceful, ok)
          IN  /\ Commit(w)
              /\ Suspend(t, [Begin("restart", b) EXCEPT
                               !.pc = "settle",
                               !.ins = [w.ins EXCEPT !.stopRet = w.ret,
                                                     !.callPre = running[b].kind,
                                                     !.callPid = running[b].pid]])

\* restart_bot, lines 460-494: after the settle sleep.
RestartResume(t) ==
    /\ returned = NoCall
    /\ UNCHANGED <<monitor, restore, child>>
    /\ task[t].pc = "settle"
    /\ LET tk == [task[t] EXCEPT !.ins.cfgSeen = IF configFile[task[t].bot]
                                                 THEN "exists" ELSE "missing"]
       IN  IF ~configFile[tk.bot]
           THEN \E ok \in DbOutcomes :
                   LET w == restart_no_config(World(tk.ins), tk.bot, ok)
                   IN  Commit(w) /\ Return(t, tk, w)
           ELSE \E f \in SpawnChoices(tk.bot), okPid \in DbOutcomes, okStatus \in DbOutcomes :
                   LET sw == start_bot_process(World(tk.ins), tk.bot, f)
                   IN  LaunchAllowed(sw) /\ AfterSpawn(t, tk, sw, okPid, okStatus)

\* check_bot_health(bot_id): no await suspends it.
CallCheckHealth(t, b) ==
    /\ returned = NoCall
    /\ UNCHANGED <<monitor, restore, child>>
    /\ t \in coroutines
    /\ task[t].pc = "idle"
    /\ \E race \in HealthChoices(b), ok \in DbOutcomes :
          LET w == check_bot_health(World(NoIns), b, race, ok)
          IN  Commit(w) /\ Return(t, Begin("health", b), w)

\* get_running_bots()
CallGetRunningBots(t) ==
    /\ returned = NoCall
    /\ UNCHANGED <<monitor, restore, child>>
    /\ t \in coroutines
    /\ task[t].pc = "idle"
    /\ \E okf \in [Bots -> DbOutcomes] :
          LET w == get_running_bots(World(NoIns), okf)
          IN  Commit(w) /\ Return(t, [Idle EXCEPT !.op = "list", !.bot = 1], w)

\* shutdown_all_bots(): stop_bot never suspends, so neither does this.
CallShutdownAll(t) ==
    /\ returned = NoCall
    /\ UNCHANGED <<monitor, restore, child>>
    /\ t \in coroutines
    /\ task[t].pc = "idle"
    /\ \E gracefulf \in [Bots -> BOOLEAN], okf \in [Bots -> DbOutcomes] :
          LET w == shutdown_all_bots(World(NoIns), gracefulf, okf)
          IN  Commit(w) /\ Return(t, [Idle EXCEPT !.op = "shutdown", !.bot = 1], w)

\* A bot process exits on its own (crash, fatal startup error, kill from outside).
ProcExit(p) ==
    /\ returned = NoCall
    /\ osProc[p].bot # 0
    /\ osProc[p].alive
    /\ osProc' = [osProc EXCEPT ![p].alive = FALSE]
    /\ returned' = NoCall
    /\ UNCHANGED <<nextPid, running, registry, configFile, dbFaulty, clock, written, dbconn, child, coroutines, task,
                   monitor, restore>>

\* The caller takes the value its call returned; the event loop goes on.
TakeResult ==
    /\ returned # NoCall
    /\ returned' = NoCall
    /\ UNCHANGED <<osProc, nextPid, running, registry, configFile, dbFaulty, clock, written, dbconn, child,
                   coroutines, task, monitor, restore>>

\* ------------------------------------------------- MasterDatabase at work
\* update_bot_status(b, status) is called: database.py 239-240.
DbUse(b, status) ==
    /\ returned = NoCall
    /\ dbconn.pc = "idle"
    /\ dbconn' = [DbIdle EXCEPT !.pc = "connect", !.stmt = [bot |-> b, status |-> status]]
    /\ UNCHANGED <<osProc, nextPid, running, registry, configFile, dbFaulty,
                   coroutines, task, monitor, restore, clock, written, child, returned>>

\* One pass through lines 88-97 of the loop.
DbConnect ==
    /\ returned = NoCall
    /\ dbconn.pc = "connect"
    /\ \E isLocked \in BOOLEAN : dbconn' = db_connect(dbconn, isLocked)
    /\ UNCHANGED <<osProc, nextPid, running, registry, configFile, dbFaulty,
                   coroutines, task, monitor, restore, clock, written, child, returned>>

\* The with-body: the UPDATE of lines 241-245, then lines 100-112.
DbBody ==
    /\ returned = NoCall
    /\ dbconn.pc = "body"
    /\ \E isLocked \in BOOLEAN :
          LET c == db_body(dbconn, isLocked)
              w == IF c.result = "ok"
                   THEN update_bot_status(World(NoIns), dbconn.stmt.bot,
                                          dbconn.stmt.status, Null, TRUE)
                   ELSE World(NoIns)
          IN  /\ dbconn' = c
              /\ registry' = w.reg
              /\ written' = w.written
    /\ UNCHANGED <<osProc, nextPid, running, configFile, dbFaulty,
                   coroutines, task, monitor, restore, clock, child, returned>>

\* time.sleep(retry_delay * (2 ** attempt)) ends; continue: the next attempt.
DbWake ==
    /\ returned = NoCall
    /\ dbconn.pc = "sleep"
    /\ dbconn' = [dbconn EXCEPT !.pc = "connect", !.attempt = @ + 1]
    /\ UNCHANGED <<osProc, nextPid, running, registry, configFile, dbFaulty,
                   coroutines, task, monitor, restore, clock, written, child, returned>>

\* update_bot_status returns: an exception of the with statement is logged
\* and dropped (lines 248-249).
DbReturn ==
    /\ returned = NoCall
    /\ dbconn.pc = "done"
    /\ dbconn' = DbIdle
    /\ UNCHANGED <<osProc, nextPid, running, registry, configFile, dbFaulty,
                   coroutines, task, monitor, restore, clock, written, child, returned>>

\* ------------------------------------------------ the writers of user_bots
\* The arguments of every update_bot_status call of the program: the manager
\* (process_manager.py 150, 160, 174, 435, 468, 481, 491, 525, 551, 568, 616),
\* restore_user_bots (app.py 193) and the child bots (user_bot_template/main.py
\* 358, 397).
StatusWrites ==
    {<<"active", Null>>, <<"stopped", Null>>,
     <<"error", "Failed to start process">>, <<"error", InitDbError>>,
     <<"error", "Config file not found">>, <<"error", "Failed to restart process">>,
     <<"error", "Process terminated unexpectedly">>,
     <<"error", "Process no longer exists">>,
     <<"error", "Process died unexpectedly">>,
     <<"error", "Config file missing">>, <<"error", StartError>>}

\* One of the writers calls update_bot_status(b, a[1], a[2]); each call is one
\* UPDATE statement, so the calls of different writers follow one another in
\* some order.
RegistryWrite(b, a) ==
    /\ returned = NoCall
    /\ LET w == update_bot_status(World(NoIns), b, a[1], a[2], TRUE)
       IN  Commit(w) /\ Return("t1", Begin("write", b), w)
    /\ UNCHANGED <<monitor, restore, child>>

\* update_bot_process_id(b, str(p)) called on its own.
RegistryWritePid(b, p) ==
    /\ returned = NoCall
    /\ LET w == update_bot_process_id(World(NoIns), b, PidStr(p), TRUE)
       IN  Commit(w) /\ Return("t1", Begin("write_pid", b), w)
    /\ UNCHANGED <<monitor, restore, child>>

\* ---------------------------------------------------------- the user bots
\* The bot in process p runs start_bot up to its idle wait (lines 379-392), or
\* to its failure.  Nothing in the program starts UserBot.health_check.
ChildStartup(p) ==
    /\ returned = NoCall
    /\ osProc[p].alive /\ osProc[p].owned
    /\ child[p].pc = "starting"
    /\ \E how \in ChildStarts, ok1 \in DbOutcomes, ok2 \in DbOutcomes :
          LET w == start_bot(World(NoIns), p, osProc[p].bot, how, ok1, ok2)
          IN  /\ Commit(w)
              /\ child' = [child EXCEPT ![p] =
                              IF how = "ok" THEN [pc |-> "polling", beats |-> 1]
                              ELSE [pc |-> "failed",
                                    beats |-> IF how = "fails_late" THEN 1 ELSE 0]]
    /\ UNCHANGED <<task, monitor, restore, returned>>

\* Time passes on the database's clock.
Tick ==
    /\ returned = NoCall
    /\ clock < MaxClock
    /\ clock' = clock + 1
    /\ UNCHANGED <<osProc, nextPid, running, registry, configFile, dbFaulty,
                   coroutines, task, monitor, restore, written, dbconn, child, returned>>

\* ------------------------------------------------------ HealthMonitor's loop
\* restart_bot(b) begun by a routine on coroutine t, lines 449-458, in the
\* world hw: stop_bot, then the settle sleep.
BeginRestart(t, b, hw, graceful, ok) ==
    LET w == stop_bot([hw EXCEPT !.ins = NoIns, !.ret = Null], b, graceful, ok)
    IN  /\ Commit(w)
        /\ Suspend(t, [Begin("restart", b) EXCEPT
                         !.pc = "settle",
                         !.ins = [w.ins EXCEPT !.stopRet = w.ret,
                                               !.callPre = hw.run[b].kind,
                                               !.callPid = hw.run[b].pid]])

\* The wait of stop_bot matters for a live process only (in the world hw).
StopChoicesIn(hw, b) ==
    IF hw.run[b] # NoHandle /\ hw.os[hw.run[b].pid].alive THEN BOOLEAN ELSE {TRUE}

\* A coroutine awaits start_monitoring(): from now on it is the monitor's loop.
MonitorStart(t) ==
    /\ returned = NoCall
    /\ t \in coroutines
    /\ task[t].pc = "idle"
    /\ monitor.pc = "off"
    /\ monitor' = [MonitorOff EXCEPT !.pc = "loop", !.monitoring = TRUE, !.task = t]
    /\ coroutines' = coroutines \ {t}
    /\ UNCHANGED <<osProc, nextPid, running, registry, configFile, dbFaulty, clock, written, dbconn, child, task,
                   restore, returned>>

\* stop_monitoring(): the flag is cleared, by anyone, at any time.
MonitorStop ==
    /\ returned = NoCall
    /\ monitor.monitoring
    /\ monitor' = [monitor EXCEPT !.monitoring = FALSE]
    /\ UNCHANGED <<osProc, nextPid, running, registry, configFile, dbFaulty, clock, written, dbconn, child,
                   coroutines, task, restore, returned>>

\* while self.monitoring: the loop ends (start_monitoring returns; the run
\* is followed no further), or an iteration begins with
\* check_all_bots' get_running_bots(), or raises.  watched: the bots an earlier
\* pass of this loop listed with a live process; owed: those of them whose
\* handle a listing dropped since, because their process had exited.
MonitorLoop ==
    /\ returned = NoCall
    /\ monitor.pc = "loop"
    /\ UNCHANGED <<restore, child, task, returned>>
    /\ IF ~loop_test(monitor)
       THEN /\ monitor' = [monitor EXCEPT !.pc = "ended"]
            /\ UNCHANGED <<osProc, nextPid, running, registry, configFile, dbFaulty, clock, written, dbconn, child,
                           coroutines>>
       ELSE \E raises \in BOOLEAN, okf \in [Bots -> DbOutcomes] :
               IF raises
               THEN /\ monitor' = monitor_on_exception(monitor)
                    /\ UNCHANGED <<osProc, nextPid, running, registry, configFile,
                                   dbFaulty, clock, written, dbconn, child, coroutines>>
               ELSE LET w == get_running_bots(World(NoIns), okf)
                        exited == {b \in monitor.watched :
                                                /\ running[b] # NoHandle
                                                /\ w.run[b] = NoHandle
                                                /\ ~osProc[running[b].pid].alive}
                    IN  /\ Commit(w)
                        /\ monitor' = [monitor EXCEPT !.pc = "checking",
                                                      !.todo = w.list,
                                                      !.watched =
                                                         {b \in w.list :
                                                            w.os[w.run[b].pid].alive},
                                                      !.owed = @ \cup exited]

\* check_all_bots, lines 39-44: the next bot of the list; an unhealthy one is
\* restarted (the monitor's coroutine is then inside restart_bot).
MonitorCheck ==
    /\ returned = NoCall
    /\ monitor.pc = "checking"
    /\ task[monitor.task].pc = "idle"
    /\ UNCHANGED <<restore, child>>
    /\ IF monitor.todo = {}
       THEN /\ monitor' = [monitor EXCEPT !.pc = "sleep"]
            /\ UNCHANGED <<osProc, nextPid, running, registry, configFile, dbFaulty, clock, written, dbconn, child,
                           coroutines, task, returned>>
       ELSE LET b == CHOOSE x \in monitor.todo : \A y \in monitor.todo : x <= y
            IN  \E race \in HealthChoices(b), ok \in DbOutcomes :
                   LET hw == check_bot_health(World(NoIns), b, race, ok)
                   IN  IF hw.ret = True
                       THEN /\ Commit(hw)
                            /\ monitor' = [monitor EXCEPT !.todo = @ \ {b}]
                            /\ UNCHANGED <<task, returned>>
                       ELSE \E graceful \in StopChoicesIn(hw, b), ok2 \in DbOutcomes :
                               /\ BeginRestart(monitor.task, b, hw, graceful, ok2)
                               /\ monitor' = [monitor EXCEPT !.todo = @ \ {b},
                                                             !.owed = @ \ {b}]

\* The sleep of the loop (300 s after a pass, 60 s after an exception) ends.
MonitorWake ==
    /\ returned = NoCall
    /\ monitor.pc \in {"sleep", "backoff"}
    /\ monitor' = [monitor EXCEPT !.pc = "loop"]
    /\ UNCHANGED <<osProc, nextPid, running, registry, configFile, dbFaulty, clock, written, dbconn, child,
                   coroutines, task, restore, returned>>

\* --------------------------------------------------------- restore_user_bots
\* The routine runs each restart_bot to its end with asyncio.run.
RestoreTask == "t1"

\* app.py lines 160-175: the list of active bots is read; the routine returns
\* at once when it is empty.
RestoreBegin ==
    /\ returned = NoCall
    /\ restore.pc = "start"
    /\ LET active == get_active_bots(registry)
       IN  restore' = [restore EXCEPT
                         !.pc = IF active = {} THEN "done" ELSE "loop",      \* 164-166
                         !.todo = active,
                         !.listed = active,
                         !.statusRead = [b \in Bots |-> registry[b].status]]
    /\ UNCHANGED <<osProc, nextPid, running, registry, configFile, dbFaulty, clock, written, dbconn, child,
                   coroutines, task, monitor, returned>>

\* app.py lines 177-203: the next record of the list.
RestoreStep ==
    /\ returned = NoCall
    /\ restore.pc = "loop"
    /\ restore.todo # {}
    /\ task[RestoreTask].pc = "idle"
    /\ UNCHANGED <<monitor, child>>
    /\ LET b  == CHOOSE x \in restore.todo : \A y \in restore.todo : x <= y
           r1 == [restore EXCEPT
                    !.todo = @ \ {b},
                    !.sawTracked = IF running[b] # NoHandle THEN @ \cup {b} ELSE @,
                    !.sawNoConfig = IF running[b] = NoHandle /\ ~configFile[b]
                                    THEN @ \cup {b} ELSE @]
       IN  IF get_bot_process_info(running, b)
           THEN /\ restore' = r1                                   \* 185-187
                /\ UNCHANGED <<osProc, nextPid, running, registry, configFile,
                               dbFaulty, clock, written, dbconn, child, coroutines, task, returned>>
           ELSE IF ~configFile[b]
           THEN \E ok \in DbOutcomes :                             \* 190-195
                   LET o == restore_config_missing(World(NoIns), r1, b, ok)
                   IN  /\ Commit(o.w)
                       /\ restore' = o.r
                       /\ UNCHANGED <<task, returned>>
           ELSE \E graceful \in StopChoices(b), ok \in DbOutcomes : \* 202
                   /\ BeginRestart(RestoreTask, b, World(NoIns), graceful, ok)
                   /\ restore' = [r1 EXCEPT !.pc = "restarting",
                                            !.called = @ \cup {b}]

\* app.py lines 202-209: restart_bot returned; its result is counted.
RestoreResult ==
    /\ restore.pc = "restarting"
    /\ returned.op = "restart"
    /\ restore' = IF returned.ret = True
                  THEN [restore EXCEPT !.pc = "loop", !.restored_count = @ + 1,
                                       !.restored = @ \cup {returned.bot}]
                  ELSE [restore EXCEPT !.pc = "loop", !.failed_count = @ + 1,
                                       !.failed = @ \cup {returned.bot}]
    /\ returned' = NoCall
    /\ UNCHANGED <<osProc, nextPid, running, registry, configFile, dbFaulty, clock, written, dbconn, child,
                   coroutines, task, monitor>>

\* app.py lines 216-223: the list is done; the summary event.
RestoreFinish ==
    /\ returned = NoCall
    /\ restore.pc = "loop"
    /\ restore.todo = {}
    /\ restore' = restore_summary(restore)
    /\ UNCHANGED <<osProc, nextPid, running, registry, configFile, dbFaulty, clock, written, dbconn, child,
                   coroutines, task, monitor, returned>>

\* ----------------------------------------------------------------------- Init
\* The state after BotProcessManager(): _discover_running_processes has put a
\* MockProcess handle into running_processes for every live user-bot process
\* left by an earlier manager.
\* A record is created with status creating and last_ping NULL (database.py
\* 54, 59); any other status was put there by an update_bot_status, before now.
\* The records have been through deploy_user_bot's lines 132-139 before, so
\* their config_path and database_path are set.
WrittenBefore(rec) ==
    IF rec.status \in {"creating", "absent"} THEN NotWritten
    ELSE [status |-> rec.status, error_message |-> rec.error_message, at |-> rec.last_ping]

PidOfDiscovered(D, b) == Cardinality({d \in D : d <= b})

Constructed(statuses) ==
    \E D \in SUBSET Bots :
       /\ osProc = [p \in Pids |->
                      IF \E b \in D : PidOfDiscovered(D, b) = p
                      THEN [bot |-> CHOOSE b \in D : PidOfDiscovered(D, b) = p,
                            alive |-> TRUE, owned |-> FALSE]
                      ELSE [bot |-> 0, alive |-> FALSE, owned |-> FALSE]]
       /\ nextPid = Cardinality(D) + 1
       /\ running = [b \in Bots |->
                      IF b \in D THEN Handle(PidOfDiscovered(D, b), "discovered")
                      ELSE NoHandle]
       /\ \E st \in [Bots -> statuses] :
             registry = [b \in Bots |->
                           [status |-> IF b \in D THEN "active" ELSE st[b],
                            process_id |-> IF b \in D THEN PidStr(PidOfDiscovered(D, b)) ELSE Null,
                            error_message |-> Null,
                            last_ping |-> IF b \notin D /\ st[b] \in {"creating", "absent"}
                                          THEN NoPing ELSE 0,
                            config_path |-> IF b \notin D /\ st[b] = "absent"
                                            THEN NoPath ELSE ConfigPath(b),
                            database_path |-> IF b \notin D /\ st[b] = "absent"
                                              THEN NoPath ELSE DatabasePath(b)]]
       /\ configFile \in [Bots -> BOOLEAN]
       /\ task = [t \in Tasks |-> Idle]
       /\ returned = NoCall
       /\ clock = 0
       /\ written = [b \in Bots |-> WrittenBefore(registry[b])]
       /\ dbconn = DbIdle
       /\ child = [p \in Pids |-> IF osProc[p].bot # 0 THEN ChildPolling ELSE NoChild]

\* The manager is used by the coroutines `callers`; no monitor, no restoration.
Start(callers) ==
    /\ Constructed({"creating", "active"})
    /\ dbFaulty = FALSE
    /\ coroutines = callers
    /\ monitor = MonitorOff
    /\ restore = RestoreOff

\* One caller at a time, as every call site of the repository awaits its call.
Init == Start({"t1"})

\* Two coroutines of one event loop share the manager (spec section 5).
InitConc == Start(Tasks)

Next ==
    \/ \E t \in Tasks, b \in Bots : CallSpawn(t, b)
    \/ \E t \in Tasks, b \in Bots : CallDeploy(t, b)
    \/ \E t \in Tasks : WindowPoll(t)
    \/ \E t \in Tasks, b \in Bots : CallStop(t, b)
    \/ \E t \in Tasks, b \in Bots : CallRestart(t, b)
    \/ \E t \in Tasks : RestartResume(t)
    \/ \E t \in Tasks, b \in Bots : CallCheckHealth(t, b)
    \/ \E t \in Tasks : CallGetRunningBots(t)
    \/ \E t \in Tasks : CallShutdownAll(t)
    \/ \E p \in Pids : ProcExit(p)
    \/ TakeResult

Spec == Init /\ [][Next]_vars

SpecConc == InitConc /\ [][Next]_vars

\* One caller at a time over a database whose writes fail (locked file, full
\* disk): MasterDatabase logs the error and returns.
InitLossy ==
    /\ Constructed({"creating", "active"})
    /\ dbFaulty = TRUE
    /\ coroutines = {"t1"}
    /\ monitor = MonitorOff
    /\ restore = RestoreOff

SpecLossy == InitLossy /\ [][Next]_vars

\* One coroutine deploys bots and then becomes HealthMonitor's loop.  The
\* event loop runs every coroutine that is ready, and every sleep ends.
NextMonitor ==
    \/ \E t \in Tasks, b \in Bots : CallDeploy(t, b)
    \/ \E t \in Tasks : WindowPoll(t)
    \/ \E t \in Tasks : RestartResume(t)
    \/ \E p \in Pids : ProcExit(p)
    \/ TakeResult
    \/ \E t \in Tasks : MonitorStart(t)
    \/ MonitorStop
    \/ MonitorLoop
    \/ MonitorCheck
    \/ MonitorWake

MonitorFairness ==
    /\ WF_vars(MonitorLoop)
    /\ WF_vars(MonitorCheck)
    /\ WF_vars(MonitorWake)
    /\ WF_vars(TakeResult)
    /\ \A t \in Tasks : WF_vars(RestartResume(t)) /\ WF_vars(WindowPoll(t))

SpecMonitor == Init /\ [][NextMonitor]_vars /\ MonitorFairness

\* The manager, used by one caller, and the bots it launched: each child
\* process runs start_bot on its own and writes user_bots itself.  The event
\* loops run what is ready.
NextChild ==
    \/ \E t \in Tasks, b \in Bots : CallDeploy(t, b)
    \/ \E t \in Tasks : WindowPoll(t)
    \/ \E t \in Tasks, b \in Bots : CallStop(t, b)
    \/ \E t \in Tasks, b \in Bots : CallCheckHealth(t, b)
    \/ \E p \in Pids : ProcExit(p)
    \/ TakeResult
    \/ \E p \in Pids : ChildStartup(p)
    \/ Tick

ChildFairness ==
    /\ WF_vars(TakeResult)
    /\ \A t \in Tasks : WF_vars(WindowPoll(t))
    /\ \A p \in Pids : WF_vars(ChildStartup(p))

SpecChild == Init /\ [][NextChild]_vars /\ ChildFairness

\* The table user_bots under its writers, in any order and at any time.
InitRegistry ==
    /\ Constructed({"creating", "active", "stopped", "error", "deleted"})
    /\ dbFaulty = FALSE
    /\ coroutines = {}
    /\ monitor = MonitorOff
    /\ restore = RestoreOff

NextRegistry ==
    \/ \E b \in Bots, a \in StatusWrites : RegistryWrite(b, a)
    \/ Tick
    \/ TakeResult

SpecRegistry == InitRegistry /\ [][NextRegistry]_vars

\* The table user_bots with ids that have no row: update_bot_status and
\* update_bot_process_id called for any id.
InitTable ==
    /\ Constructed({"absent", "creating", "error"})
    /\ dbFaulty = FALSE
    /\ coroutines = {}
    /\ monitor = MonitorOff
    /\ restore = RestoreOff

NextTable ==
    \/ \E b \in Bots, a \in StatusWrites : RegistryWrite(b, a)
    \/ \E b \in Bots, p \in Pids : RegistryWritePid(b, p)
    \/ TakeResult

SpecTable == InitTable /\ [][NextTable]_vars

\* MasterDatabase alone: update_bot_status calls against a database that
\* other connections lock at times.
InitDb == Start({})

NextDb ==
    \/ \E b \in Bots, status \in {"active", "error", "stopped"} : DbUse(b, status)
    \/ DbConnect
    \/ DbBody
    \/ DbWake
    \/ DbReturn

SpecDb == InitDb /\ [][NextDb]_vars

\* restore_user_bots() at application start: it constructs its own manager,
\* after reading the list of active bots; nobody else uses that manager.
InitRestore ==
    /\ Constructed({"creating", "active", "stopped", "error", "deleted"})
    /\ dbFaulty = FALSE
    /\ coroutines = {}
    /\ monitor = MonitorOff
    /\ restore = [RestoreOff EXCEPT !.pc = "start"]

NextRestore ==
    \/ RestoreBegin
    \/ RestoreStep
    \/ RestoreResult
    \/ RestoreFinish
    \/ \E t \in Tasks : RestartResume(t)
    \/ \E t \in Tasks : WindowPoll(t)
    \/ \E p \in Pids : ProcExit(p)

SpecRestore == InitRestore /\ [][NextRestore]_vars

\* ==================================================================== claims
Bot == returned.bot
WasSpawnOrRestart == returned.op \in {"spawn", "restart", "deploy"}

\* Processes this manager launched for bot b that are alive.
LiveLaunched(b) == {p \in Pids : osProc[p].bot = b /\ osProc[p].owned /\ osProc[p].alive}

\* C1 (as claimed): in every reachable state, for every bot id at most one
\* process launched for it by this manager is alive, whatever the interleaving
\* of spawn and restart calls.
C1_AtMostOneLiveProcess == \A b \in Bots : Cardinality(LiveLaunched(b)) <= 1

\* C2: a _start_bot_process call that found the bot's tracked handle polling
\* alive returns at once with that handle's pid, runs no smoke test, launches
\* nothing and leaves running_processes unchanged.
C2_SpawnOnAliveHandleIsIdempotent ==
    (returned.op = "spawn" /\ returned.ins.handleSeen = "running")
    => /\ returned.atCall
       /\ returned.pre # NoHandle /\ returned.preAlive
       /\ returned.ret = PidStr(returned.pre.pid)
       /\ returned.ins.smoke = 0
       /\ returned.ins.launches = 0
       /\ returned.proc = 0
       /\ returned.runSame

C2_Witness ==
    /\ returned.op = "spawn" /\ returned.ins.handleSeen = "running"
    /\ returned.pre.kind = "owned" /\ returned.preAlive
    /\ returned.ret = PidStr(returned.pre.pid)

\* C3: a spawn that launched a process returns its pid, with the handle
\* registered, only after 15 polls of the window found it alive; when the
\* process is found exited at a poll of the window, the last one included, it
\* returns None and adds no entry to running_processes.
C3_ConfirmationWindow ==
    (WasSpawnOrRestart /\ returned.ins.launches = 1)
    => /\ returned.ins.spawnRet # Null
            => /\ returned.ins.polls = 15
               /\ returned.ins.spawnRet = PidStr(returned.proc)
               /\ running[Bot] = Handle(returned.proc, "owned")
       /\ ~osProc[returned.proc].alive
            => /\ returned.ins.spawnRet = Null
               /\ running[Bot].pid # returned.proc
               /\ running[Bot] \in {NoHandle, returned.pre}

\* the process exits between the 14th and the 15th poll
C3_Witness ==
    /\ WasSpawnOrRestart /\ returned.ins.launches = 1
    /\ returned.ins.polls = 14
    /\ ~osProc[returned.proc].alive
    /\ returned.ins.spawnRet = Null

\* C4: a launched process that has exited at the immediate poll makes spawn
\* return None with no entry added to running_processes.
C4_DeadOnArrival ==
    (WasSpawnOrRestart /\ returned.ins.launches = 1 /\ returned.ins.polls = 0
        /\ ~osProc[returned.proc].alive)
    => /\ returned.ins.spawnRet = Null
       /\ running[Bot].pid # returned.proc
       /\ running[Bot] \in {NoHandle, returned.pre}

C4_Witness ==
    /\ WasSpawnOrRestart /\ returned.ins.launches = 1
    /\ returned.ins.path = "doa"
    /\ ~osProc[returned.proc].alive
    /\ returned.ins.spawnRet = Null

\* C5: when the smoke test exits non-zero, times out or cannot be run, spawn
\* returns None, launches no process and adds no entry to running_processes.
C5_SmokeTestGate ==
    (WasSpawnOrRestart /\ returned.ins.smokeResult \in SmokeFailures)
    => /\ returned.ins.spawnRet = Null
       /\ returned.ins.launches = 0
       /\ returned.proc = 0
       /\ running[Bot] = NoHandle

C5_Witness ==
    /\ WasSpawnOrRestart /\ returned.ins.smokeResult = "smoke_timeout"
    /\ returned.ins.spawnRet = Null /\ returned.ins.launches = 0

\* C6: stop_bot for a bot with no tracked handle returns True, signals
\* nothing, writes nothing to user_bots and leaves running_processes as it was.
C6_StopUntrackedIsNoOp ==
    (returned.op = "stop" /\ returned.pre = NoHandle)
    => /\ returned.ret = True
       /\ returned.ins.signals = {}
       /\ returned.ins.writes = {}
       /\ returned.runSame
       /\ returned.regSame

C6_Witness ==
    /\ returned.op = "stop" /\ returned.pre = NoHandle
    /\ returned.ret = True
    /\ registry[Bot].status = "active"

\* C7 (as claimed): when stop_bot returns for a bot that was tracked, by an
\* owned or a discovered handle, the bot is no longer tracked, its process has
\* exited and its status is stopped.
C7_StopRemovesAndMarksStopped ==
    (returned.op = "stop" /\ returned.pre # NoHandle)
    => /\ running[Bot] = NoHandle
       /\ ~osProc[returned.pre.pid].alive
       /\ registry[Bot].status = "stopped"

\* C8: restart_bot for a bot with no tracked handle whose config file exists
\* calls _start_bot_process exactly once after the no-op stop, and returns
\* True exactly when that call returned a pid.
C8_RestartOfAbsentBotSpawns ==
    (returned.op = "restart" /\ returned.ins.callPre = "none"
        /\ returned.ins.cfgSeen = "exists")
    => /\ returned.ins.stopPath = "noop"
       /\ returned.ins.spawns = 1
       /\ returned.ret = True <=> returned.ins.spawnRet # Null

C8_Witness ==
    /\ returned.op = "restart" /\ returned.ins.callPre = "none"
    /\ returned.ins.cfgSeen = "exists"
    /\ returned.ins.spawns = 1 /\ returned.ins.launches = 1
    /\ returned.ret = True

\* C9: restart_bot with the config file missing returns False, persists
\* status error with the config message, and neither calls
\* _start_bot_process nor launches anything.
C9_RestartWithoutConfigFails ==
    (returned.op = "restart" /\ returned.ins.cfgSeen = "missing")
    => /\ returned.ret = False
       /\ registry[Bot].status = "error"
       /\ registry[Bot].error_message = "Config file not found"
       /\ returned.ins.spawns = 0
       /\ returned.ins.smoke = 0
       /\ returned.ins.launches = 0

C9_Witness ==
    /\ returned.op = "restart" /\ returned.ins.cfgSeen = "missing"
    /\ returned.ret = False
    /\ returned.recBefore.status # "error"

\* C10: after restart_bot returns True the bot is tracked with a live handle
\* and its record is active with that handle's pid; after it returns False the
\* record is error.
C10_RestartOutcomePersisted ==
    returned.op = "restart"
    => /\ returned.ret = True
            => /\ running[Bot] # NoHandle
               /\ osProc[running[Bot].pid].alive
               /\ registry[Bot].status = "active"
               /\ registry[Bot].process_id = PidStr(running[Bot].pid)
       /\ returned.ret = False => registry[Bot].status = "error"

\* the record was put into error by check_bot_health after the process died,
\* and the restart brings it back to active with the new pid
C10_Witness ==
    /\ returned.op = "restart" /\ returned.ret = True
    /\ returned.recBefore.status = "error"
    /\ returned.recBefore.error_message = "Process terminated unexpectedly"
    /\ returned.recBefore.process_id # registry[Bot].process_id
    /\ registry[Bot].status = "active"

\* C11 (as claimed): whenever deploy_user_bot returns False, the bot's record
\* has status error with a message.
C11_DeployFailurePersisted ==
    (returned.op = "deploy" /\ returned.ret = False
        /\ returned.recBefore.status # "absent")
    => /\ registry[Bot].status = "error"
       /\ registry[Bot].error_message # Null

\* C12: deploy_user_bot returns True only if _start_bot_process returned a pid,
\* after 15 live polls of the window or from a handle found alive, and then
\* the bot is tracked and its record is active with the tracked handle's pid.
C12_DeploySuccess ==
    (returned.op = "deploy" /\ returned.ret = True)
    => /\ returned.ins.spawnRet # Null
       /\ returned.ins.polls = 15 \/ returned.ins.handleSeen = "running"
       /\ running[Bot] # NoHandle
       /\ returned.ins.spawnRet = PidStr(running[Bot].pid)
       /\ registry[Bot].status = "active"
       /\ registry[Bot].process_id = PidStr(running[Bot].pid)

C12_Witness ==
    /\ returned.op = "deploy" /\ returned.ret = True
    /\ returned.ins.launches = 1 /\ returned.ins.polls = 15
    /\ returned.recBefore.status = "creating"
    /\ registry[Bot].status = "active"

\* C13: check_bot_health on a tracked handle whose poll reports the exit
\* removes the bot from running_processes, sets its record to error with
\* 'Process terminated unexpectedly' and returns False.
C13_HealthOfExitedProcess ==
    (returned.op = "health" /\ returned.pre.kind = "owned" /\ ~returned.preAlive)
    => /\ returned.ret = False
       /\ running[Bot] = NoHandle
       /\ registry[Bot].status = "error"
       /\ registry[Bot].error_message = "Process terminated unexpectedly"

C13_Witness ==
    /\ returned.op = "health" /\ returned.pre.kind = "owned" /\ ~returned.preAlive
    /\ returned.recBefore.status = "active"
    /\ returned.ret = False /\ running[Bot] = NoHandle

\* C14 (as claimed): check_bot_health for a bot tracked by a discovered handle
\* whose process is alive returns True and keeps the handle.
C14_DiscoveredHandleIsHealthy ==
    (returned.op = "health" /\ returned.pre.kind = "discovered" /\ returned.preAlive)
    => /\ returned.ret = True
       /\ running[Bot] = returned.pre

\* C15 (as claimed): get_running_bots lists every bot tracked by a discovered
\* handle whose process is alive, keeps it tracked and does not mark its
\* record error.
C15_DiscoveredBotIsListed ==
    returned.op = "list"
    => \A b \in Bots :
          <<b, "discovered", TRUE>> \in returned.ins.tracked
          => /\ b \in returned.list
             /\ running[b].kind = "discovered"
             /\ registry[b].status # "error"

\* C16: get_running_bots removes every handle that polls exited and marks its
\* record error 'Process died unexpectedly', keeps every handle that polls
\* alive, and returns exactly the bot ids still tracked.
C16_ListingCleansExited ==
    returned.op = "list"
    => /\ \A b \in Bots :
             /\ <<b, "owned", FALSE>> \in returned.ins.tracked
                  => /\ running[b] = NoHandle
                     /\ b \notin returned.list
                     /\ registry[b].status = "error"
                     /\ registry[b].error_message = "Process died unexpectedly"
             /\ <<b, "owned", TRUE>> \in returned.ins.tracked
                  => /\ running[b].kind = "owned"
                     /\ b \in returned.list
       /\ returned.list = {b \in Bots : running[b] # NoHandle}

C16_Witness ==
    /\ returned.op = "list"
    /\ \E b \in Bots : /\ <<b, "owned", FALSE>> \in returned.ins.tracked
                       /\ running[b] = NoHandle
                       /\ b \notin returned.list

\* C17 (as claimed): while HealthMonitor is running, every exit of a tracked
\* bot's process that the monitor's pass detects is eventually followed by a
\* restart_bot call of the monitor for that bot.
C17_ExitLeadsToMonitorRestart ==
    \A b \in Bots :
       (b \in monitor.owed) ~> (b \notin monitor.owed \/ ~monitor.monitoring)

\* C18: HealthMonitor's loop ends only when monitoring has been switched off,
\* and an exception raised in an iteration leads, through the backoff sleep,
\* back to the loop's test.
C18_MonitorLoopSurvives ==
    /\ [](monitor.pc = "ended" => ~monitor.monitoring)
    /\ ((monitor.pc = "backoff") ~> (monitor.pc = "loop"))

C18_Witness == monitor.pc = "backoff" /\ monitor.monitoring

\* Processes launched for bot b by the manager.
Launched(b) == {p \in Pids : osProc[p].bot = b /\ osProc[p].owned}

\* C19: restore_user_bots calls no manager operation for a record whose bot
\* the manager already tracked when the record was examined, and counts it
\* neither as restored nor as failed.
C19_RestoreSkipsRunningBots ==
    /\ restore.restored_count = Cardinality(restore.restored)
    /\ restore.failed_count = Cardinality(restore.failed)
    /\ \A b \in restore.sawTracked :
          /\ b \notin restore.called
          /\ b \notin restore.restored
          /\ b \notin restore.failed
          /\ Launched(b) = {}
          /\ running[b].kind = "discovered"

C19_Witness ==
    /\ restore.pc = "done"
    /\ restore.sawTracked # {}
    /\ restore.restored_count = 0 /\ restore.failed_count = 0

\* C20: for a record of the list whose bot is untracked and whose config file
\* is missing, restore_user_bots sets status error 'Config file missing',
\* counts it as failed and calls neither restart_bot nor a spawn for it.
C20_RestoreMarksMissingConfig ==
    \A b \in restore.sawNoConfig :
       /\ registry[b].status = "error"
       /\ registry[b].error_message = "Config file missing"
       /\ b \in restore.failed
       /\ restore.failed_count >= 1
       /\ b \notin restore.called
       /\ b \notin restore.restored
       /\ Launched(b) = {}
       /\ running[b] = NoHandle

C20_Witness ==
    /\ restore.pc = "done"
    /\ restore.sawNoConfig # {}
    /\ restore.failed_count = 1

\* The process of every tracked handle is alive: no process has exited behind
\* the supervisor's back.
NoTrackedExit == \A b \in Bots : running[b] # NoHandle => osProc[running[b].pid].alive

\* C21: when restore_user_bots finishes and no tracked process has exited on
\* its own meanwhile, every record that was active or creating when the list
\* was read is tracked with a live process or has status error.
C21_RestorationRepairs ==
    (restore.pc = "done" /\ NoTrackedExit)
    => \A b \in Bots :
          restore.statusRead[b] \in {"active", "creating"}
          => \/ running[b] # NoHandle /\ osProc[running[b].pid].alive
             \/ registry[b].status = "error"

\* a creating record is restored to a live tracked process
C21_Witness ==
    /\ restore.pc = "done" /\ NoTrackedExit
    /\ \E b \in Bots : /\ restore.statusRead[b] = "creating"
                       /\ b \in restore.restored
                       /\ running[b].kind = "owned"
                       /\ registry[b].status = "active"

\* C22: restore_user_bots logs exactly one summary event when it finishes with
\* restored_count + failed_count > 0, and none when both are zero; no event is
\* logged before it finishes.
C22_RestoreSummaryEvent ==
    /\ restore.pc = "done"
         => restore.events = IF restore.restored_count + restore.failed_count > 0
                             THEN 1 ELSE 0
    /\ restore.pc # "done" => restore.events = 0

C22_Witness ==
    /\ restore.pc = "done"
    /\ restore.events = 1
    /\ restore.restored_count + restore.failed_count = 1

\* all records skipped, or none listed: no event
C22_WitnessNone ==
    /\ restore.pc = "done"
    /\ restore.events = 0
    /\ restore.sawTracked # {}

\* C25: get_active_bots returns exactly the records whose status is active or
\* creating: every such record, and none that is stopped, error or deleted.
C25_ActiveBotsExact ==
    restore.pc \notin {"off", "start"}
    => \A b \in Bots :
          /\ b \in restore.listed <=> restore.statusRead[b] \in {"active", "creating"}
          /\ restore.statusRead[b] \in {"stopped", "error", "deleted"}
               => b \notin restore.listed

C25_Witness ==
    /\ restore.pc \notin {"off", "start"}
    /\ \E b \in Bots : restore.statusRead[b] = "creating" /\ b \in restore.listed

\* a deleted record is left out
C25_WitnessExcluded ==
    /\ restore.pc = "done"
    /\ \E b \in Bots : restore.statusRead[b] = "deleted" /\ b \notin restore.listed

\* C23: a failed write of user_bots inside deploy_user_bot, stop_bot,
\* restart_bot, check_bot_health or get_running_bots changes neither the value
\* the call returns nor what it does to running_processes: deploy and restart
\* return True with the handle registered when the spawn returned a pid, stop
\* returns True with the handle removed, and no call ends in an exception.
C23_LostWriteIsHarmless ==
    returned.ins.lost
    => /\ returned.op \in {"deploy", "restart", "stop", "health"}
            => returned.ret \in {True, False}
       /\ returned.op \in {"deploy", "restart"}
            => /\ returned.ret = True <=> returned.ins.spawnRet # Null
               /\ returned.ins.spawnRet # Null
                    => /\ running[Bot] # NoHandle
                       /\ returned.ins.spawnRet = PidStr(running[Bot].pid)
       /\ returned.op = "stop"
            => /\ returned.ret = True
               /\ running[Bot] = NoHandle
               /\ ~osProc[returned.pre.pid].alive
       /\ returned.op = "health"
            => /\ returned.ret = True <=> returned.ins.path = "healthy"
               /\ returned.ret = True => returned.runSame
               /\ returned.ret = False => running[Bot] = NoHandle
       /\ returned.op = "list"
            => /\ returned.list = {b \in Bots : running[b] # NoHandle}
               /\ \A b \in Bots :
                     /\ <<b, "owned", FALSE>> \in returned.ins.tracked
                          => running[b] = NoHandle
                     /\ <<b, "owned", TRUE>> \in returned.ins.tracked
                          => running[b].kind = "owned"

\* deploy succeeded although neither the pid nor the status was persisted
C23_Witness ==
    /\ returned.op = "deploy" /\ returned.ins.lost
    /\ returned.ret = True
    /\ returned.ins.launches = 1
    /\ running[Bot] # NoHandle
    /\ registry[Bot].status = "creating"
    /\ registry[Bot].process_id = Null

\* stop removed the handle although 'stopped' was not persisted
C23_WitnessStop ==
    /\ returned.op = "stop" /\ returned.ins.lost
    /\ returned.ret = True /\ running[Bot] = NoHandle
    /\ registry[Bot].status = "active"

\* An exception was thrown inside the call: by an operation of a discovered
\* handle, by _initialize_bot_database, or by reading the config, opening the
\* logs, running the smoke test or Popen.
ExceptionInCall ==
    \/ returned.ins.stopPath = "raised"
    \/ returned.ins.path \in {"poll_raised", "deploy_db_init", "config_unreadable",
                              "log_error", "popen_error", "popen_notfound",
                              "smoke_error", "smoke_timeout"}

\* C24: deploy_user_bot, stop_bot, restart_bot and check_bot_health return True
\* or False on every path; when an exception was thrown inside the call, stop
\* and check_bot_health return False, and deploy and restart return False with
\* the record set to error with a message.
C24_NeverRaises ==
    returned.op \in {"deploy", "stop", "restart", "health"}
    => /\ returned.ret \in {True, False}
       /\ ExceptionInCall
            => /\ returned.ret = False
               /\ returned.op \in {"deploy", "restart"}
                    => /\ registry[Bot].status = "error"
                       /\ registry[Bot].error_message # Null

\* check_bot_health on a discovered handle: poll() raises TypeError
C24_Witness ==
    /\ returned.op = "health" /\ returned.ins.path = "poll_raised"
    /\ returned.pre.kind = "discovered"
    /\ returned.ret = False

\* _initialize_bot_database raises inside deploy_user_bot
C24_WitnessDeploy ==
    /\ returned.op = "deploy" /\ returned.ins.path = "deploy_db_init"
    /\ returned.ret = False
    /\ registry[Bot].status = "error" /\ registry[Bot].error_message = InitDbError

\* restart_bot of a discovered handle: stop_bot and the spawn both meet TypeError
C24_WitnessRestart ==
    /\ returned.op = "restart" /\ returned.ins.stopPath = "raised"
    /\ returned.ins.path = "poll_raised"
    /\ returned.ret = False /\ registry[Bot].status = "error"

\* C29 (as claimed): when shutdown_all_bots returns, with no spawn in flight,
\* running_processes is empty and every bot that was tracked at the call has
\* status stopped.
C29_ShutdownAllStopsEverything ==
    (returned.op = "shutdown" /\ \A t \in Tasks : task[t].pc = "idle")
    => /\ \A b \in Bots : running[b] = NoHandle
       /\ \A b \in Bots :
             (\E k \in {"owned", "discovered"}, a \in BOOLEAN :
                 <<b, k, a>> \in returned.ins.tracked)
             => registry[b].status = "stopped"

\* What the code does: shutdown_all_bots empties running_processes of the
\* Popen handles and marks their bots stopped; a discovered handle stays.
C29_ShutdownStopsOwned ==
    returned.op = "shutdown"
    => \A b \in Bots :
          /\ (\E a \in BOOLEAN : <<b, "owned", a>> \in returned.ins.tracked)
               => /\ running[b] = NoHandle
                  /\ registry[b].status = "stopped"
          /\ (\E a \in BOOLEAN : <<b, "discovered", a>> \in returned.ins.tracked)
               => /\ running[b].kind = "discovered"
                  /\ registry[b].status # "stopped"

DelaysDouble ==
    \A i \in 1..Len(dbconn.slept) : dbconn.slept[i] = 2 ^ (i - 1)

\* C26 (as claimed): an operation that meets 'locked', when connecting or while
\* executing its statement, is attempted again after a delay that doubles; it
\* completes its write if the lock clears before the 5th attempt and reports
\* an error only after the 5th locked attempt.
C26_LockedIsRetried ==
    dbconn.pc = "done"
    => /\ DelaysDouble
       /\ dbconn.locked < MaxRetries
            => /\ dbconn.result = "ok"
               /\ registry[dbconn.stmt.bot].status = dbconn.stmt.status
       /\ dbconn.result # "ok" => dbconn.locked = MaxRetries

\* What the code does: the claim's behaviour holds as long as the lock is met
\* when connecting only.
C26_LockedConnectIsRetried ==
    (dbconn.pc = "done" /\ ~dbconn.thrown)
    => /\ DelaysDouble
       /\ dbconn.locked < MaxRetries
            => /\ dbconn.result = "ok" /\ dbconn.bodyRuns = 1
               /\ registry[dbconn.stmt.bot].status = dbconn.stmt.status
       /\ dbconn.result # "ok" => dbconn.locked = MaxRetries /\ dbconn.bodyRuns = 0

\* A statement that met 'locked' is never run again.
C26_StatementRunsOnce == dbconn.bodyRuns <= 1

\* C27: every update_bot_status that reaches an existing record sets status
\* and error_message to its arguments and last_ping to the current time,
\* whatever the record held, so that under every interleaving of the writes of
\* the manager and of the child bots each record holds the values of the last
\* write made to it.
C27_LastWriteWins ==
    \A b \in Bots :
       written[b] # NotWritten
       => /\ registry[b].status = written[b].status
          /\ registry[b].error_message = written[b].error_message
          /\ registry[b].last_ping = written[b].at

\* a stopped record is set to active by a later write, with a fresh last_ping
C27_Witness ==
    /\ returned.op = "write"
    /\ returned.recBefore.status = "stopped"
    /\ returned.recBefore.last_ping < clock
    /\ registry[Bot].status = "active" /\ registry[Bot].last_ping = clock

\* a record in status error is set to active by a later deploy, with a fresh
\* last_ping
C27_WitnessDeploy ==
    /\ returned.op = "deploy" /\ returned.ret = True
    /\ returned.recBefore.status = "error"
    /\ returned.recBefore.last_ping < clock
    /\ registry[Bot].status = "active" /\ registry[Bot].last_ping = clock

\* the child's 'active' lands inside the confirmation window and the
\* manager's 'error' comes after it
C27_WitnessInterleaved ==
    /\ returned.op = "deploy" /\ returned.ret = False
    /\ returned.ins.launches = 1
    /\ child[returned.proc] = ChildPolling
    /\ returned.recBefore.status = "active"
    /\ registry[Bot].status = "error"

\* C28 (as claimed): a child bot that is in its long-lived polling writes
\* status active again after its write at startup, as long as it runs.
C28_ChildHeartbeat ==
    \A p \in Pids :
       (osProc[p].alive /\ child[p].pc = "polling" /\ child[p].beats = 1)
       ~> (~osProc[p].alive \/ child[p].beats > 1)

\* What the code does: a child bot writes active at most once.
C28_OneWriteAtStartup == \A p \in Pids : child[p].beats <= 1

\* C31: one deploy_user_bot or restart_bot call runs _start_bot_process once,
\* and that runs the --help-test and Popen at most once each: after a failed
\* smoke test nothing was launched, after a process dead on arrival or dead
\* within the window exactly one was, and the call returns False.
C31_AtMostOneLaunch ==
    returned.op \in {"deploy", "restart"}
    => /\ returned.ins.spawns <= 1
       /\ returned.ins.smoke <= 1
       /\ returned.ins.launches <= 1
       /\ returned.ins.path \in SmokeFailures
            => returned.ins.launches = 0 /\ returned.ret = False
       /\ returned.ins.path \in {"doa", "died_in_window"}
            => /\ returned.ins.launches = 1
               /\ returned.ret = False
               /\ ~osProc[returned.proc].alive

\* a deploy whose process died within the window
C31_Witness ==
    /\ returned.op = "deploy" /\ returned.ret = False
    /\ returned.ins.path = "died_in_window" /\ returned.ins.launches = 1

\* a restart whose process was dead on arrival
C31_WitnessRestartDoa ==
    /\ returned.op = "restart" /\ returned.ret = False
    /\ returned.ins.path = "doa" /\ returned.ins.launches = 1

\* a deploy whose smoke test failed
C31_WitnessSmoke ==
    /\ returned.op = "deploy" /\ returned.ret = False
    /\ returned.ins.path \in SmokeFailures /\ returned.ins.smoke = 1

\* check_bot_health returned for a bot that was tracked with a process that
\* was, and still is, alive, while its record held a status other than active.
HealthOfLiveTracked ==
    /\ returned.op = "health"
    /\ returned.pre # NoHandle
    /\ returned.preAlive
    /\ osProc[returned.pre.pid].alive
    /\ returned.recBefore.status \notin {"active", "absent"}

\* C32: when a bot is tracked with a live process and its record's status is
\* not active, check_bot_health returns True and the record's status is active
\* afterwards.
C32_HealthCheckRepairsStatus ==
    HealthOfLiveTracked
    => returned.ret = True /\ registry[returned.bot].status = "active"

\* The same for a handle the manager launched itself (a Popen object): the
\* record is put back to active with no error message.
C32_OwnedHandleRepaired ==
    HealthOfLiveTracked /\ returned.pre.kind = "owned"
    => /\ returned.ret = True
       /\ registry[returned.bot].status = "active"
       /\ registry[returned.bot].error_message = Null
       /\ running[returned.bot] = returned.pre

\* a record in status error of a bot with a live owned process is repaired
C32_WitnessOwned ==
    /\ HealthOfLiveTracked /\ returned.pre.kind = "owned"
    /\ returned.recBefore.status = "error"
    /\ registry[returned.bot].status = "active"

\* C33: every update_bot_status(bot, 'error', msg) a call of the manager makes
\* has msg other than None, and a record the call left in status error has
\* its error_message set.
C33_ErrorWritesCarryMessage ==
    /\ \A wr \in returned.ins.writes : wr[2] = "error" => wr[3] # Null
    /\ \A b \in Bots :
          (\E wr \in returned.ins.writes : wr[1] = b /\ wr[2] = "error")
             /\ registry[b].status = "error"
          => registry[b].error_message # Null

\* get_running_bots found an exited process and marked its record
C33_Witness ==
    /\ returned.op = "list"
    /\ <<Bot, "error", "Process died unexpectedly">> \in returned.ins.writes
    /\ registry[Bot].status = "error"
    /\ registry[Bot].error_message = "Process died unexpectedly"

\* a deploy whose spawn failed
C33_WitnessDeploy ==
    /\ returned.op = "deploy"
    /\ registry[Bot].status = "error"
    /\ registry[Bot].error_message = "Failed to start process"

\* The same for restore_user_bots: a bot it counted as failed and whose record
\* is in status error has a message (its own write of app.py 193, or
\* restart_bot's).
C33_RestoreErrorHasMessage ==
    \A b \in restore.failed :
       registry[b].status = "error" => registry[b].error_message # Null

C33_WitnessRestore ==
    \E b \in restore.failed :
       /\ registry[b].status = "error"
       /\ registry[b].error_message = "Failed to restart process"

\* C34: check_bot_health on a tracked handle whose process is alive (and is
\* not found a zombie or gone by psutil) leaves running_processes as it was,
\* sends no signal, runs no stop and no spawn, and leaves the process alive;
\* with memory above 200 MB it only warns, and the result is True as it is
\* below the threshold.
C34_HealthLeavesLiveProcessAlone ==
    /\ returned.op = "health" /\ returned.pre # NoHandle /\ returned.preAlive
          /\ returned.ins.path \notin {"zombie", "gone"}
       => /\ returned.runSame
          /\ running[returned.bot] = returned.pre
          /\ osProc[returned.pre.pid].alive
          /\ returned.ins.signals = {}
          /\ returned.ins.stopPath = "none"
          /\ returned.ins.spawns = 0 /\ returned.ins.launches = 0
          /\ returned.pre.kind = "owned" => returned.ret = True
    /\ returned.op = "health" /\ returned.ins.memWarned
       => returned.ret = True /\ returned.ins.path = "healthy"

\* a live owned process above the threshold is reported healthy and kept
C34_Witness ==
    /\ returned.op = "health" /\ returned.ins.memWarned
    /\ returned.pre.kind = "owned" /\ returned.preAlive
    /\ returned.ret = True
    /\ running[returned.bot] = returned.pre
    /\ osProc[returned.pre.pid].alive

\* C35: no run of _start_bot_process discards what the bot's log files held:
\* it creates them or appends to them.
C35_LogsOnlyAppended ==
    returned.op \in {"spawn", "deploy", "restart"}
    => returned.ins.logOpened # "truncated"

\* What holds instead: whenever a spawn gets past its smoke test for a bot
\* that had a process before, the files are emptied before Popen, so they
\* hold the output of the last launch only.
C35_EverySpawnTruncates ==
    /\ returned.op \in {"spawn", "deploy", "restart"}
    /\ returned.ins.launches = 1
    /\ \E q \in Pids : q # returned.proc /\ osProc[q].bot = returned.bot
    => returned.ins.logOpened = "truncated"

\* C36: when deploy_user_bot, restart_bot or check_bot_health has written
\* status active for a bot, the bot is in running_processes with a handle of
\* the manager's own whose process is alive (it was polled alive in the step
\* that made the write).
C36_ActiveWrittenForTrackedOnly ==
    \A b \in Bots :
       (\E wr \in returned.ins.writes : wr[1] = b /\ wr[2] = "active")
       => /\ returned.op \in {"deploy", "restart", "health"}
          /\ returned.bot = b
          /\ running[b] # NoHandle
          /\ running[b].kind = "owned"
          /\ osProc[running[b].pid].alive
          /\ returned.ins.path \in {"confirmed", "already_running", "healthy"}

\* a deploy's process survived its window and active was written
C36_Witness ==
    /\ returned.op = "deploy" /\ returned.ins.path = "confirmed"
    /\ <<returned.bot, "active", Null>> \in returned.ins.writes
    /\ running[returned.bot] = Handle(returned.proc, "owned")

\* a restart that had stopped the old process first
C36_WitnessRestart ==
    /\ returned.op = "restart" /\ returned.ins.path = "confirmed"
    /\ <<returned.bot, "stopped", Null>> \in returned.ins.writes
    /\ <<returned.bot, "active", Null>> \in returned.ins.writes

\* a health check
C36_WitnessHealth ==
    /\ returned.op = "health"
    /\ <<returned.bot, "active", Null>> \in returned.ins.writes

\* C37: when _start_bot_process returns None after its Popen, the process it
\* launched has exited (it was seen exited by the immediate poll or by a poll
\* of the window); no process the call launched is alive without being the
\* one tracked for the bot.
C37_FailedSpawnLeavesNoOrphan ==
    (WasSpawnOrRestart /\ returned.ins.launches >= 1)
    => /\ returned.ins.spawnRet = Null
            => /\ ~osProc[returned.proc].alive
               /\ returned.ins.path \in {"doa", "died_in_window"}
       /\ osProc[returned.proc].alive
            => /\ returned.ins.spawnRet = PidStr(returned.proc)
               /\ running[Bot] = Handle(returned.proc, "owned")

\* the process died at the eighth poll of its window
C37_Witness ==
    /\ WasSpawnOrRestart /\ returned.ins.launches = 1
    /\ returned.ins.spawnRet = Null
    /\ returned.ins.path = "died_in_window" /\ returned.ins.polls = 7
    /\ osProc[returned.proc].owned /\ ~osProc[returned.proc].alive
    /\ running[Bot] = NoHandle

\* C38: update_bot_status and update_bot_process_id for an id that has no
\* row return normally, create no row and leave the table as it was.
C38_UpdateOfMissingRecord ==
    (returned.op \in {"write", "write_pid"} /\ returned.recBefore.status = "absent")
    => /\ returned.ret = Null
       /\ returned.regSame
       /\ registry[returned.bot] = NoRecord
       /\ written[returned.bot] = NotWritten

\* a status write for an id without a row
C38_Witness ==
    /\ returned.op = "write" /\ returned.recBefore.status = "absent"
    /\ <<returned.bot, "active", Null>> \in returned.ins.writes
    /\ registry[returned.bot] = NoRecord

\* a process-id write for an id without a row
C38_WitnessPid ==
    /\ returned.op = "write_pid" /\ returned.recBefore.status = "absent"
    /\ registry[returned.bot] = NoRecord

\* C39: an update_bot_status for an existing record stores the message it
\* was given, which is NULL for every active and stopped write, so that the
\* record carries no message of an earlier error; process_id, config_path and
\* database_path are as before the write.
C39_StatusWriteClearsMessage ==
    (returned.op = "write" /\ returned.recBefore.status # "absent")
    => LET rec == registry[returned.bot]
       IN  /\ \A wr \in returned.ins.writes :
                /\ rec.status = wr[2]
                /\ rec.error_message = wr[3]
                /\ wr[2] \in {"active", "stopped"} => wr[3] = Null
           /\ rec.status \in {"active", "stopped"} => rec.error_message = Null
           /\ rec.process_id = returned.recBefore.process_id
           /\ rec.config_path = returned.recBefore.config_path
           /\ rec.database_path = returned.recBefore.database_path

\* an error record with a message and a process id is set to active
C39_Witness ==
    /\ returned.op = "write"
    /\ returned.recBefore.status = "error"
    /\ returned.recBefore.error_message # Null
    /\ returned.recBefore.process_id # Null
    /\ returned.recBefore.config_path # NoPath
    /\ registry[returned.bot].status = "active"
    /\ registry[returned.bot].error_message = Null
    /\ registry[returned.bot].process_id = returned.recBefore.process_id

\* The same seen from the manager's calls: every active or stopped write of a
\* call has no message, and a record whose last write was active or stopped
\* has error_message NULL.
C39_NoStaleMessage ==
    /\ \A wr \in returned.ins.writes : wr[2] \in {"active", "stopped"} => wr[3] = Null
    /\ \A b \in Bots :
          written[b].status \in {"active", "stopped"} /\ registry[b].status = written[b].status
          => registry[b].error_message = Null

\* stop_bot on a bot whose record was in status error
C39_WitnessStop ==
    /\ returned.op = "stop" /\ returned.ret = True
    /\ returned.recBefore.status = "error" /\ returned.recBefore.error_message # Null
    /\ registry[returned.bot].status = "stopped"
    /\ registry[returned.bot].error_message = Null
    /\ registry[returned.bot].process_id = returned.recBefore.process_id

\* stop_monitoring() has been called on a monitor whose loop was started.
MonitorStopped == ~monitor.monitoring /\ monitor.pc # "off"

\* C40: once stop_monitoring() has been called, the loop begins no further
\* pass of check_all_bots and enters no further sleep but the one that follows
\* the pass in progress, and start_monitoring returns.
C40_StopEndsTheLoop ==
    /\ [][MonitorStopped =>
            /\ monitor'.pc = "checking" => monitor.pc = "checking"
            /\ monitor'.pc = "backoff" => monitor.pc = "backoff"
            /\ monitor'.pc = "sleep" => monitor.pc \in {"checking", "sleep"}
            /\ monitor.pc = "ended" => monitor'.pc = "ended"]_vars
    /\ (MonitorStopped ~> monitor.pc = "ended")

\* the flag is cleared while the monitor is inside a restart_bot of its pass
C40_Witness ==
    /\ MonitorStopped
    /\ monitor.pc = "checking"
    /\ task[monitor.task].pc = "window"

\* the loop has ended after a pass
C40_WitnessEnded ==
    /\ monitor.pc = "ended"
    /\ monitor.watched # {}

TypeOK ==
    /\ nextPid \in 1..(MaxPid + 1)
    /\ \A b \in Bots : running[b].kind \in {"none", "owned", "discovered"}
    /\ \A t \in Tasks : task[t].pc \in {"idle", "window", "settle"}
    /\ monitor.pc \in {"off", "loop", "checking", "sleep", "backoff", "ended"}
    /\ restore.pc \in {"off", "start", "loop", "restarting", "done"}

====
